---- MODULE Spec2Model ----
(***************************************************************************)
(* A model of the radius symbolic execution engine's Processor             *)
(* (src/radius/src/processor.rs): the ESIL tokenizer and evaluator, the    *)
(* instruction cache, execute, step, run and merge.                        *)
(*                                                                         *)
(* Symbolic values are modelled extensionally.  The symbolic inputs of a   *)
(* run range over a finite set of assignments ("worlds"); a bit-vector is  *)
(* the function giving its value in every world, and a boolean bit-vector  *)
(* (an assertion, a condition) is the set of worlds in which it is true.   *)
(***************************************************************************)
EXTENDS Integers, Sequences, FiniteSets, TLC

\* ------------------------------------------------------------------ bounds
\* Number of assignments of the symbolic input x (x takes the values 0..XMax-1).
XMax == 3

\* ------------------------------------------------------- program constants
INSTR_NUM == 64
CALL_TYPE == 3
RETN_TYPE == 5

Worlds == 0 .. (XMax - 1)
NoneVal == 0 - 1

\* Op applied to the value of v (v is evaluated once).
Let(v, Op(_)) == CHOOSE r \in {Op(x) : x \in {v}} : TRUE

\* ------------------------------------------------------------------ Value
\* Value::Concrete(v) and Value::Symbolic(bv): sym is the tag, f the value in
\* every world (constant for a concrete value).
Concrete(n) == [sym |-> FALSE, f |-> [w \in Worlds |-> n]]
Symbolic(g) == [sym |-> TRUE, f |-> g]

IsConstBV(g) == \A w \in Worlds : g[w] = g[0]

\* Value::as_u64: Some(v) for a concrete value and for a bit-vector that is a
\* constant node, None (NoneVal) otherwise.
as_u64(v) == IF (~v.sym) \/ IsConstBV(v.f) THEN v.f[0] ELSE NoneVal

\* A boolean bit-vector as the set of worlds where it is 1.
BoolBV(v) == {w \in Worlds : v.f[w] # 0}
BoolValue(b) == Symbolic([w \in Worlds |-> IF w \in b THEN 1 ELSE 0])

\* ------------------------------------------------------------------ Solver
\* Solver::conditional(cond, if_val, else_val): a concrete condition selects
\* one operand, a symbolic one builds the ITE bit-vector.
conditional(cond, if_val, else_val) ==
    IF ~cond.sym
    THEN IF cond.f[0] # 0 THEN if_val ELSE else_val
    ELSE Symbolic([w \in Worlds |-> IF cond.f[w] # 0 THEN if_val.f[w] ELSE else_val.f[w]])

RECURSIVE and_all(_)
\* Solver::and_all: the conjunction of a list of assertions (true when empty).
and_all(bvs) ==
    IF bvs = <<>> THEN Worlds ELSE Head(bvs) \cap and_all(Tail(bvs))

\* Solver::assert: push an assertion on the assertion list.
solver_assert(asserts, bv) == Append(asserts, bv)

\* The values a bit-vector takes in the assignments satisfying the assertions.
SatValues(asserts, v) == {v.f[w] : w \in and_all(asserts)}

RECURSIVE Perms(_)
Perms(S) ==
    IF S = {} THEN {<<>>}
    ELSE UNION {{<<e>> \o p : p \in Perms(S \ {e})} : e \in S}

\* State::evaluate_many: the satisfying values, in an order the solver chooses.
evaluate_many(asserts, v) == Perms(SatValues(asserts, v))

\* ------------------------------------------------------------------ Words
\* An ESIL token is a string, modelled as the sequence of its characters
\* (so that the tokenizer's slices s[0..l-1], s[l-4..] can be taken).
Literal(v) == [t |-> "Literal", val |-> v]
Register(i) == [t |-> "Register", index |-> i]
Operator(o) == [t |-> "Operator", op |-> o]
Unknown(s) == [t |-> "Unknown", str |-> s]
NoWord == [t |-> "NoWord"]

\* The register file: names in index order.  pc is the PC alias, lr the link
\* register, ra the register the entry function keeps its own return address
\* in, r0 the argument and return register, x an input register, fl the flags
\* register and zf its lowest bit.
RegList == << <<"p","c">>, <<"l","r">>, <<"r","a">>, <<"r","0">>, <<"x">>,
              <<"z","f">>, <<"f","l">> >>
RegIdx == 1 .. Len(RegList)

\* Registers::get_register(name): the index of the register, 0 when unknown.
RegisterIndex(s) ==
    IF \E i \in RegIdx : RegList[i] = s
    THEN CHOOSE i \in RegIdx : RegList[i] = s
    ELSE 0

PCIdx == RegisterIndex(<<"p","c">>)
LRIdx == RegisterIndex(<<"l","r">>)
RAIdx == RegisterIndex(<<"r","a">>)
R0Idx == RegisterIndex(<<"r","0">>)
XIdx == RegisterIndex(<<"x">>)
ZFIdx == RegisterIndex(<<"z","f">>)
FLIdx == RegisterIndex(<<"f","l">>)

\* The bit range of a register in the backing array: every register is 64
\* bits wide and has a slot of its own, except zf, which is bit 0 of fl.
RegBounds(i) ==
    IF i = ZFIdx THEN [offset |-> 64 * FLIdx, size |-> 1]
    ELSE [offset |-> 64 * i, size |-> 64]

\* Processor::get_register
get_register(s) ==
    IF RegisterIndex(s) # 0 THEN Register(RegisterIndex(s)) ELSE NoWord

Digits == <<"0","1","2","3","4","5","6","7","8","9">>
DigitVal(c) == (CHOOSE i \in 1..10 : Digits[i] = c) - 1
IsDigit(c) == \E i \in 1..10 : Digits[i] = c

RECURSIVE DecVal(_)
DecVal(s) == IF s = <<>> THEN 0 ELSE 10 * DecVal(SubSeq(s, 1, Len(s) - 1)) + DigitVal(s[Len(s)])

IsDecimal(s) == Len(s) > 0 /\ \A i \in 1..Len(s) : IsDigit(s[i])

\* Processor::get_literal: a decimal or 0x-prefixed number (the hexadecimal
\* tokens of the model use decimal digits only).
get_literal(s) ==
    IF IsDecimal(s) THEN Literal(Concrete(DecVal(s)))
    ELSE IF Len(s) > 2 /\ SubSeq(s, 1, 2) = <<"0","x">> /\ IsDecimal(SubSeq(s, 3, Len(s)))
         THEN Literal(Concrete(DecVal(SubSeq(s, 3, Len(s)))))
    ELSE NoWord

\* Operations::from_string: the operator table.
OpTable == {
    << <<"=">>, "Equal" >>, << <<":","=">>, "WeakEqual" >>,
    << <<"<">>, "LessThan" >>, << <<"=","=">>, "Compare" >>,
    << <<"+">>, "Add" >>, << <<"-">>, "Sub" >>, << <<"^">>, "Xor" >>,
    << <<"?","{">>, "If" >>, << <<"}","{">>, "Else" >>, << <<"}">>, "EndIf" >>,
    << <<"[","1","]">>, "PeekOne" >>, << <<"=","[","1","]">>, "PokeOne" >>,
    << <<"[","2","]">>, "PeekTwo" >>, << <<"=","[","2","]">>, "PokeTwo" >>,
    << <<"[","4","]">>, "PeekFour" >>, << <<"=","[","4","]">>, "PokeFour" >>,
    << <<"[","8","]">>, "PeekEight" >>, << <<"=","[","8","]">>, "PokeEight" >>,
    << <<"G","O","T","O">>, "GoTo" >>, << <<"B","R","E","A","K">>, "Break" >>,
    << <<"T","R","A","P">>, "Trap" >>, << <<"$">>, "Syscall" >>,
    << <<"$","z">>, "Zero" >>, << <<"$","c">>, "Carry" >>, << <<"$","b">>, "Borrow" >>,
    << <<"$","p">>, "Parity" >>, << <<"$","o">>, "Overflow" >>, << <<"$","s">>, "S" >>,
    << <<>>, "NoOperation" >> }

Operations_from_string(s) ==
    IF \E e \in OpTable : e[1] = s
    THEN (CHOOSE e \in OpTable : e[1] = s)[2]
    ELSE "Unknown"

\* operations::OPS: the operators that have the fused forms OP= and OP=[N].
OPS == { <<"+">>, <<"-">>, <<"^">> }

\* Processor::get_operator
get_operator(s) ==
    IF Operations_from_string(s) = "Unknown" THEN NoWord
    ELSE Operator(Operations_from_string(s))

\* The loop body with the store of a fused memory form before the restore of
\* the address.
TokenizeOnePokeFirst(tokens, s) ==
    LET l == Len(s) IN
    IF get_register(s) # NoWord THEN Append(tokens, get_register(s))
    ELSE IF get_literal(s) # NoWord THEN Append(tokens, get_literal(s))
    ELSE IF get_operator(s) # NoWord THEN Append(tokens, get_operator(s))
    ELSE IF l > 1 /\ SubSeq(s, l, l) = <<"=">> /\ SubSeq(s, 1, l - 1) \in OPS
         THEN LET reg_word == tokens[Len(tokens)] IN
              SubSeq(tokens, 1, Len(tokens) - 1)
                \o << reg_word, get_operator(SubSeq(s, 1, l - 1)), reg_word, Operator("Equal") >>
    ELSE IF l > 4 /\ SubSeq(s, l, l) = <<"]">> /\ SubSeq(s, 1, l - 4) \in OPS
         THEN tokens \o << Operator("AddressStore"),
                           get_operator(SubSeq(s, l - 2, l)),
                           get_operator(SubSeq(s, 1, l - 4)),
                           get_operator(SubSeq(s, l - 3, l)),
                           Operator("AddressRestore") >>
    ELSE Append(tokens, Unknown(s))

\* The loop body with the fused register form keeping the word before it.
TokenizeOneKeepsWord(tokens, s) ==
    LET l == Len(s) IN
    IF get_register(s) # NoWord THEN Append(tokens, get_register(s))
    ELSE IF get_literal(s) # NoWord THEN Append(tokens, get_literal(s))
    ELSE IF get_operator(s) # NoWord THEN Append(tokens, get_operator(s))
    ELSE IF l > 1 /\ SubSeq(s, l, l) = <<"=">> /\ SubSeq(s, 1, l - 1) \in OPS
         THEN LET reg_word == tokens[Len(tokens)] IN
              tokens
                \o << reg_word, get_operator(SubSeq(s, 1, l - 1)), reg_word, Operator("Equal") >>
    ELSE IF l > 4 /\ SubSeq(s, l, l) = <<"]">> /\ SubSeq(s, 1, l - 4) \in OPS
         THEN tokens \o << Operator("AddressStore"),
                           get_operator(SubSeq(s, l - 2, l)),
                           get_operator(SubSeq(s, 1, l - 4)),
                           Operator("AddressRestore"),
                           get_operator(SubSeq(s, l - 3, l)) >>
    ELSE Append(tokens, Unknown(s))

\* The loop body with unrecognized tokens dropped.
TokenizeOneDropsUnknown(tokens, s) ==
    LET l == Len(s) IN
    IF get_register(s) # NoWord THEN Append(tokens, get_register(s))
    ELSE IF get_literal(s) # NoWord THEN Append(tokens, get_literal(s))
    ELSE IF get_operator(s) # NoWord THEN Append(tokens, get_operator(s))
    ELSE IF l > 1 /\ SubSeq(s, l, l) = <<"=">> /\ SubSeq(s, 1, l - 1) \in OPS
         THEN LET reg_word == tokens[Len(tokens)] IN
              SubSeq(tokens, 1, Len(tokens) - 1)
                \o << reg_word, get_operator(SubSeq(s, 1, l - 1)), reg_word, Operator("Equal") >>
    ELSE IF l > 4 /\ SubSeq(s, l, l) = <<"]">> /\ SubSeq(s, 1, l - 4) \in OPS
         THEN tokens \o << Operator("AddressStore"),
                           get_operator(SubSeq(s, l - 2, l)),
                           get_operator(SubSeq(s, 1, l - 4)),
                           Operator("AddressRestore"),
                           get_operator(SubSeq(s, l - 3, l)) >>
    ELSE tokens

\* One iteration of the loop of Processor::tokenize: the words after token s.
TokenizeOne(tokens, s) ==
    LET l == Len(s) IN
    IF get_register(s) # NoWord THEN Append(tokens, get_register(s))
    ELSE IF get_literal(s) # NoWord THEN Append(tokens, get_literal(s))
    ELSE IF get_operator(s) # NoWord THEN Append(tokens, get_operator(s))
    ELSE IF l > 1 /\ SubSeq(s, l, l) = <<"=">> /\ SubSeq(s, 1, l - 1) \in OPS
         THEN LET reg_word == tokens[Len(tokens)] IN
              SubSeq(tokens, 1, Len(tokens) - 1)
                \o << reg_word, get_operator(SubSeq(s, 1, l - 1)), reg_word, Operator("Equal") >>
    ELSE IF l > 4 /\ SubSeq(s, l, l) = <<"]">> /\ SubSeq(s, 1, l - 4) \in OPS
         THEN tokens \o << Operator("AddressStore"),
                           get_operator(SubSeq(s, l - 2, l)),
                           get_operator(SubSeq(s, 1, l - 4)),
                           Operator("AddressRestore"),
                           get_operator(SubSeq(s, l - 3, l)) >>
    ELSE Append(tokens, Unknown(s))

RECURSIVE TokenizeFrom(_, _)
TokenizeFrom(tokens, esil) ==
    IF esil = <<>> THEN tokens
    ELSE TokenizeFrom(TokenizeOne(tokens, Head(esil)), Tail(esil))

\* Processor::tokenize: esil is the comma-separated string already split.
tokenize(esil) == TokenizeFrom(<<>>, esil)

\* ------------------------------------------------------------------ State
StackValue(v) == [reg |-> FALSE, val |-> v]
StackRegister(i) == [reg |-> TRUE, index |-> i]

NoCond == [some |-> FALSE, bv |-> {}]
SomeCond(b) == [some |-> TRUE, bv |-> b]

\* Memory::read_value(addr, 1): the byte stored at addr, 0 where none is.
read_value(mem, addr) == IF addr \in DOMAIN mem THEN mem[addr] ELSE Concrete(0)

\* Memory::write_value(addr, value, 1)
write_value(mem, addr, v) ==
    [a \in (DOMAIN mem) \cup {addr} |-> IF a = addr THEN v ELSE mem[a]]

\* Memory::addresses
addresses(mem) == DOMAIN mem

\* Registers::get_pc / set_pc
get_pc(st) == st.regs[PCIdx]
set_pc(st, v) == [st EXCEPT !.regs[PCIdx] = v]

\* Registers::set_value: the register file after register index is written.
\* A write of zf stores the lowest bit of the value in zf and in bit 0 of fl;
\* a write of fl also changes zf.
set_value(regs, index, v) ==
    LET LowBit(a) ==
            IF a.sym THEN Symbolic([w \in Worlds |-> a.f[w] % 2]) ELSE Concrete(a.f[0] % 2)
        WithLowBit(fl, zf) ==
            IF fl.sym \/ zf.sym
            THEN Symbolic([w \in Worlds |-> fl.f[w] - (fl.f[w] % 2) + zf.f[w]])
            ELSE Concrete(fl.f[0] - (fl.f[0] % 2) + zf.f[0])
    IN  IF index = ZFIdx
        THEN [regs EXCEPT ![ZFIdx] = LowBit(v), ![FLIdx] = WithLowBit(@, LowBit(v))]
        ELSE IF index = FLIdx
        THEN [regs EXCEPT ![FLIdx] = v, ![ZFIdx] = LowBit(v)]
        ELSE [regs EXCEPT ![index] = v]

\* The value of a stack item: a register item reads the register.
ItemValue(st, item) == IF item.reg THEN st.regs[item.index] ELSE item.val

\* operations::push_value
push_value(st, v) == [st EXCEPT !.stack = Append(@, StackValue(v))]

\* The evaluation stack without its top item; popping an empty stack aborts.
PopStack(st) ==
    IF st.stack = <<>> THEN [st EXCEPT !.panic = TRUE]
    ELSE [st EXCEPT !.stack = SubSeq(@, 1, Len(@) - 1)]

\* operations::pop_value: the value of the top item (0 on an empty stack, which aborts).
TopValue(st) ==
    IF st.stack = <<>> THEN Concrete(0) ELSE ItemValue(st, st.stack[Len(st.stack)])

TopItem(st) ==
    IF st.stack = <<>> THEN StackValue(Concrete(0)) ELSE st.stack[Len(st.stack)]

\* A store made while a symbolic condition is set keeps the old value where the
\* condition is false.
CondStore(st, new, old) ==
    IF st.condition.some THEN conditional(BoolValue(st.condition.bv), new, old) ELSE new

LessThanValue(a, b) ==
    IF a.sym \/ b.sym
    THEN Symbolic([w \in Worlds |-> IF a.f[w] < b.f[w] THEN 1 ELSE 0])
    ELSE Concrete(IF a.f[0] < b.f[0] THEN 1 ELSE 0)

CompareValue(a, b) ==
    IF a.sym \/ b.sym
    THEN Symbolic([w \in Worlds |-> IF a.f[w] = b.f[w] THEN 1 ELSE 0])
    ELSE Concrete(IF a.f[0] = b.f[0] THEN 1 ELSE 0)

AddValue(a, b) ==
    IF a.sym \/ b.sym
    THEN Symbolic([w \in Worlds |-> a.f[w] + b.f[w]])
    ELSE Concrete(a.f[0] + b.f[0])

\* operations::do_operation for a binary operator: pops arg1 then arg2 and
\* pushes the result.
BinaryOp(st, op) ==
    LET arg1 == TopValue(st)
        s1 == PopStack(st)
        arg2 == TopValue(s1)
        s2 == PopStack(s1)
        res == CASE op = "LessThan" -> LessThanValue(arg1, arg2)
                 [] op = "Compare" -> CompareValue(arg1, arg2)
                 [] OTHER -> AddValue(arg1, arg2)
    IN  IF s2.panic THEN s2 ELSE push_value(s2, res)

\* operations::do_operation
do_operation(st, op) ==
    CASE op \in {"LessThan", "Compare", "Add"} -> BinaryOp(st, op)
      [] op \in {"Equal", "WeakEqual"} ->
            LET item == TopItem(st)
                s1 == PopStack(st)
                value == TopValue(s1)
                s2 == PopStack(s1)
            IN  IF s2.panic \/ ~item.reg THEN [s2 EXCEPT !.panic = TRUE]
                ELSE [s2 EXCEPT
                        !.regs = set_value(@, item.index,
                                           CondStore(s2, value, s2.regs[item.index])),
                        !.cur = IF op = "Equal" THEN value ELSE @]
      [] op = "Zero" ->
            push_value(st, IF st.cur.sym
                           THEN Symbolic([w \in Worlds |-> IF st.cur.f[w] = 0 THEN 1 ELSE 0])
                           ELSE Concrete(IF st.cur.f[0] = 0 THEN 1 ELSE 0))
      [] op = "PokeOne" ->
            LET addr == TopValue(st)
                s1 == PopStack(st)
                value == TopValue(s1)
                s2 == PopStack(s1)
            IN  IF s2.panic \/ as_u64(addr) = NoneVal THEN [s2 EXCEPT !.panic = TRUE]
                ELSE [s2 EXCEPT !.mem = write_value(@, as_u64(addr),
                                    CondStore(s2, value, read_value(s2.mem, as_u64(addr))))]
      [] op = "PeekOne" ->
            LET addr == TopValue(st)
                s1 == PopStack(st)
            IN  IF s1.panic \/ as_u64(addr) = NoneVal THEN [s1 EXCEPT !.panic = TRUE]
                ELSE push_value(s1, read_value(s1.mem, as_u64(addr)))
      [] OTHER -> st

\* ------------------------------------------------------------------ parse
Reverse(q) == [i \in 1..Len(q) |-> q[Len(q) + 1 - i]]

RECURSIVE EndIfLoop(_, _, _, _)
\* The while loop of EndIf: pair the items of the two stacks from the top and
\* push ITE(condition, if_val, else_val) for each pair.
EndIfLoop(st, old_stack, new_temp, new_stack) ==
    IF old_stack = <<>> \/ new_temp = <<>> THEN new_stack
    ELSE LET if_val == ItemValue(st, old_stack[Len(old_stack)])
             else_val == ItemValue(st, new_temp[Len(new_temp)])
             cond_val == conditional(BoolValue(st.condition.bv), if_val, else_val)
         IN  EndIfLoop(st, SubSeq(old_stack, 1, Len(old_stack) - 1),
                       SubSeq(new_temp, 1, Len(new_temp) - 1),
                       Append(new_stack, StackValue(cond_val)))

\* Operations::If
ParseIf(st) ==
    LET arg1 == TopValue(st)
        s1 == PopStack(st)
    IN  IF s1.panic THEN s1
        ELSE IF st.mode = "Uncon" /\ ~arg1.sym
             THEN [s1 EXCEPT !.mode = IF arg1.f[0] = 0 THEN "NoExec" ELSE "Exec"]
        ELSE IF st.mode = "Uncon" /\ arg1.sym
             THEN [s1 EXCEPT !.mode = "If", !.temp1 = s1.stack,
                             !.condition = SomeCond(BoolBV(arg1))]
        ELSE s1

\* Operations::Else
ParseElse(st) ==
    CASE st.mode = "Exec" -> [st EXCEPT !.mode = "NoExec"]
      [] st.mode = "NoExec" -> [st EXCEPT !.mode = "Exec"]
      [] st.mode = "If" ->
            [st EXCEPT !.mode = "Else",
                       !.condition = SomeCond(Worlds \ st.condition.bv),
                       !.temp2 = st.stack,
                       !.stack = st.temp1,
                       !.temp1 = <<>>]
      [] OTHER -> st

ParseEndIfKeepsCondition(st) ==
    IF st.mode \notin {"If", "Else"} THEN [st EXCEPT !.mode = "Uncon"]
    ELSE LET new_temp == IF st.mode = "If" THEN st.temp1 ELSE st.temp2
             s1 == IF st.mode = "If" THEN [st EXCEPT !.temp1 = <<>>]
                   ELSE [st EXCEPT !.temp2 = <<>>]
         IN  [s1 EXCEPT !.temp1 = <<>>,
                        !.stack = Reverse(EndIfLoop(s1, s1.stack, new_temp, s1.temp1)),
                        !.mode = "Uncon"]

ParseEndIfNoReverse(st) ==
    IF st.mode \notin {"If", "Else"} THEN [st EXCEPT !.mode = "Uncon"]
    ELSE LET new_temp == IF st.mode = "If" THEN st.temp1 ELSE st.temp2
             s1 == IF st.mode = "If" THEN [st EXCEPT !.temp1 = <<>>]
                   ELSE [st EXCEPT !.temp2 = <<>>]
         IN  [s1 EXCEPT !.temp1 = <<>>,
                        !.stack = EndIfLoop(s1, s1.stack, new_temp, s1.temp1),
                        !.condition = NoCond,
                        !.mode = "Uncon"]

\* Operations::EndIf
ParseEndIf(st) ==
    IF st.mode \notin {"If", "Else"} THEN [st EXCEPT !.mode = "Uncon"]
    ELSE LET new_temp == IF st.mode = "If" THEN st.temp1 ELSE st.temp2
             s1 == IF st.mode = "If" THEN [st EXCEPT !.temp1 = <<>>]
                   ELSE [st EXCEPT !.temp2 = <<>>]
             new_stack == s1.temp1
             old_stack == s1.stack
         IN  [s1 EXCEPT !.temp1 = <<>>,
                        !.stack = Reverse(EndIfLoop(s1, old_stack, new_temp, new_stack)),
                        !.condition = NoCond,
                        !.mode = "Uncon"]

ParseGoToBreakUnchecked(st, word, wi) ==
    IF word.op = "GoTo"
    THEN LET n == TopValue(st)
             s1 == PopStack(st)
         IN  IF s1.panic \/ as_u64(n) = NoneVal
             THEN [st |-> [s1 EXCEPT !.panic = TRUE], wi |-> wi + 1, brk |-> FALSE]
             ELSE [st |-> [s1 EXCEPT !.mode = "Uncon"], wi |-> as_u64(n) + 1, brk |-> FALSE]
    ELSE [st |-> st, wi |-> wi + 1, brk |-> TRUE]

\* Operations::GoTo and Operations::Break: both abort when a condition is set.
ParseGoToBreak(st, word, wi) ==
    IF word.op = "GoTo"
    THEN LET n == TopValue(st)
             s1 == PopStack(st)
         IN  IF s1.panic \/ as_u64(n) = NoneVal \/ st.condition.some
             THEN [st |-> [s1 EXCEPT !.panic = TRUE], wi |-> wi + 1, brk |-> FALSE]
             ELSE [st |-> [s1 EXCEPT !.mode = "Uncon"], wi |-> as_u64(n) + 1, brk |-> FALSE]
    ELSE IF st.condition.some
         THEN [st |-> [st EXCEPT !.panic = TRUE], wi |-> wi + 1, brk |-> FALSE]
         ELSE [st |-> st, wi |-> wi + 1, brk |-> TRUE]

\* One iteration of the token loop of Processor::parse at word index wi
\* (1-based): the state after the word, the next word index, and whether the
\* loop was left by BREAK.
ParseWord(st, words, wi) ==
    LET word == words[wi]
        skip == st.mode = "NoExec"
                /\ ~(word.t = "Operator" /\ word.op \in {"Else", "EndIf"})
        next == [st |-> st, wi |-> wi + 1, brk |-> FALSE]
    IN  IF skip THEN next
        ELSE CASE word.t = "Literal" ->
                    [next EXCEPT !.st = [st EXCEPT !.stack = Append(@, StackValue(word.val))]]
               [] word.t = "Register" ->
                    [next EXCEPT !.st = [st EXCEPT !.stack = Append(@, StackRegister(word.index))]]
               [] word.t = "Unknown" ->
                    [next EXCEPT !.st = push_value(st, Concrete(0))]
               [] word.t = "Operator" /\ word.op = "If" -> [next EXCEPT !.st = ParseIf(st)]
               [] word.t = "Operator" /\ word.op = "Else" -> [next EXCEPT !.st = ParseElse(st)]
               [] word.t = "Operator" /\ word.op = "EndIf" -> [next EXCEPT !.st = ParseEndIf(st)]
               [] word.t = "Operator" /\ word.op \in {"GoTo", "Break"} ->
                    ParseGoToBreak(st, word, wi)
               [] word.t = "Operator" /\ word.op = "Trap" ->
                    LET s1 == PopStack(st)
                    IN  [next EXCEPT !.st = s1]
               [] word.t = "Operator" /\ word.op = "Syscall" -> next
               [] OTHER -> [next EXCEPT !.st = do_operation(st, word.op)]

\* The number of token-loop iterations one parse may run (a GOTO can loop).
MaxWords == 24

RECURSIVE ParseFrom(_, _, _, _)
ParseFrom(st, words, wi, fuel) ==
    IF wi > Len(words) \/ st.panic \/ fuel = 0 THEN st
    ELSE Let(ParseWord(st, words, wi),
             LAMBDA r : IF r.brk THEN r.st ELSE ParseFrom(r.st, words, r.wi, fuel - 1))

\* Processor::parse
parse(st, words) == ParseFrom([st EXCEPT !.stack = <<>>], words, 1, MaxWords)

\* ---------------------------------------------------------------- program
\* The disassembler's view of the analysed binary: one instruction per address
\* (every instruction is one byte long, its byte is its opcode).
\*   1: if x < 1 goto 4      2: r0 = 1; mem[20] = 1     3: goto 5
\*   4: r0 = 2               5: call 7 (lr = 6)         6: ret (to ra)
\*   7: r0 = 3               8: ret (to lr)             9: goto x + 2
\*  10: goto 10 (exit stub)
\* The disassembler reports for 7 a fail address (8) and no jump address.
Instr(o, j, fl, tn, e) ==
    [offset |-> o, size |-> 1, jump |-> j, fail |-> fl, type_num |-> tn,
     esil |-> e, bytes |-> o]

Program == <<
    Instr(1, 4, 2, 1, << <<"1">>, <<"x">>, <<"<">>, <<"?","{">>, <<"4">>, <<"p","c">>, <<"=">>, <<"}">> >>),
    Instr(2, 0, 0, 9, << <<"1">>, <<"r","0">>, <<"=">>, <<"1">>, <<"2","0">>, <<"=","[","1","]">> >>),
    Instr(3, 5, 0, 1, << <<"5">>, <<"p","c">>, <<"=">> >>),
    Instr(4, 0, 0, 9, << <<"2">>, <<"r","0">>, <<"=">> >>),
    Instr(5, 7, 6, CALL_TYPE, << <<"6">>, <<"l","r">>, <<"=">>, <<"7">>, <<"p","c">>, <<"=">> >>),
    Instr(6, 0, 0, RETN_TYPE, << <<"r","a">>, <<"p","c">>, <<"=">> >>),
    Instr(7, 0, 8, 9, << <<"3">>, <<"r","0">>, <<"=">> >>),
    Instr(8, 0, 0, RETN_TYPE, << <<"l","r">>, <<"p","c">>, <<"=">> >>),
    Instr(9, 0, 0, 2, << <<"2">>, <<"x">>, <<"+">>, <<"p","c">>, <<"=">> >>),
    Instr(10, 10, 0, 1, << <<"1","0">>, <<"p","c">>, <<"=">> >>) >>

ProgEnd == Len(Program)
Addrs == 1 .. ProgEnd

\* A second function of the binary, longer than one disassembly batch: it
\* lies at LibBase+1 .. LibBase+INSTR_NUM+2.  Its instructions are r0 = 0,
\* except the two at LibBase+INSTR_NUM and LibBase+INSTR_NUM+1, which write r0
\* as a flag ($z,r0,:=).
LibBase == 100
LibEnd == LibBase + INSTR_NUM + 2
LibAddrs == (LibBase + 1) .. LibEnd
LibFlagAddrs == {LibBase + INSTR_NUM, LibBase + INSTR_NUM + 1}

LibInstr(a) ==
    IF a \in LibFlagAddrs
    THEN Instr(a, 0, 0, 9, << <<"$","z">>, <<"r","0">>, <<":","=">> >>)
    ELSE Instr(a, 0, 0, 9, << <<"0">>, <<"r","0">>, <<"=">> >>)

\* A third function, at ThunkBase+1 .. ThunkBase+4: it calls a callee whose
\* first instruction is itself a call (of the function at 7), then returns.
ThunkBase == 200

Thunk == <<
    Instr(ThunkBase + 1, ThunkBase + 3, ThunkBase + 2, CALL_TYPE,
          << <<"2","0","2">>, <<"l","r">>, <<"=">>, <<"2","0","3">>, <<"p","c">>, <<"=">> >>),
    Instr(ThunkBase + 2, 0, 0, RETN_TYPE, << <<"r","a">>, <<"p","c">>, <<"=">> >>),
    Instr(ThunkBase + 3, 7, ThunkBase + 4, CALL_TYPE,
          << <<"2","0","4">>, <<"l","r">>, <<"=">>, <<"7">>, <<"p","c">>, <<"=">> >>),
    Instr(ThunkBase + 4, 0, 0, RETN_TYPE, << <<"2","0","2">>, <<"p","c">>, <<"=">> >>) >>

ThunkAddrs == (ThunkBase + 1) .. (ThunkBase + Len(Thunk))

\* A fourth region, at FlagBase+1 .. FlagBase+23: seven straight-line
\* fragments that write flags, each ending in a jump to the exit stub.
\*   +1  r0 = x; zf := $z     +2  r0 = 1; zf := $z     +3  r0 = zf
\*   +5  r0 = x; zf := $z     +6  r0 = zf; zf := $z
\*   +8  r0 = x; zf := $z     +9  r0 = fl; zf := $z
\*   +11 r0 = x; fl := $z     +12 r0 = zf; fl := $z
\*   +14 r0 = x; fl := $z     +15 r0 = 1; zf := $z
\*   +17 r0 = x; zf := $z     +18 r0 = zf              +19 zf := $z
\*   +21 r0 = x; zf := $z     +22 if x then zf := $z
FlagBase == 300

Flags == <<
    Instr(FlagBase + 1, 0, 0, 9, << <<"x">>, <<"r","0">>, <<"=">>, <<"$","z">>, <<"z","f">>, <<":","=">> >>),
    Instr(FlagBase + 2, 0, 0, 9, << <<"1">>, <<"r","0">>, <<"=">>, <<"$","z">>, <<"z","f">>, <<":","=">> >>),
    Instr(FlagBase + 3, 0, 0, 9, << <<"z","f">>, <<"r","0">>, <<"=">> >>),
    Instr(FlagBase + 4, ProgEnd, 0, 1, << <<"1","0">>, <<"p","c">>, <<"=">> >>),
    Instr(FlagBase + 5, 0, 0, 9, << <<"x">>, <<"r","0">>, <<"=">>, <<"$","z">>, <<"z","f">>, <<":","=">> >>),
    Instr(FlagBase + 6, 0, 0, 9, << <<"z","f">>, <<"r","0">>, <<"=">>, <<"$","z">>, <<"z","f">>, <<":","=">> >>),
    Instr(FlagBase + 7, ProgEnd, 0, 1, << <<"1","0">>, <<"p","c">>, <<"=">> >>),
    Instr(FlagBase + 8, 0, 0, 9, << <<"x">>, <<"r","0">>, <<"=">>, <<"$","z">>, <<"z","f">>, <<":","=">> >>),
    Instr(FlagBase + 9, 0, 0, 9, << <<"f","l">>, <<"r","0">>, <<"=">>, <<"$","z">>, <<"z","f">>, <<":","=">> >>),
    Instr(FlagBase + 10, ProgEnd, 0, 1, << <<"1","0">>, <<"p","c">>, <<"=">> >>),
    Instr(FlagBase + 11, 0, 0, 9, << <<"x">>, <<"r","0">>, <<"=">>, <<"$","z">>, <<"f","l">>, <<":","=">> >>),
    Instr(FlagBase + 12, 0, 0, 9, << <<"z","f">>, <<"r","0">>, <<"=">>, <<"$","z">>, <<"f","l">>, <<":","=">> >>),
    Instr(FlagBase + 13, ProgEnd, 0, 1, << <<"1","0">>, <<"p","c">>, <<"=">> >>),
    Instr(FlagBase + 14, 0, 0, 9, << <<"x">>, <<"r","0">>, <<"=">>, <<"$","z">>, <<"f","l">>, <<":","=">> >>),
    Instr(FlagBase + 15, 0, 0, 9, << <<"1">>, <<"r","0">>, <<"=">>, <<"$","z">>, <<"z","f">>, <<":","=">> >>),
    Instr(FlagBase + 16, ProgEnd, 0, 1, << <<"1","0">>, <<"p","c">>, <<"=">> >>),
    Instr(FlagBase + 17, 0, 0, 9, << <<"x">>, <<"r","0">>, <<"=">>, <<"$","z">>, <<"z","f">>, <<":","=">> >>),
    Instr(FlagBase + 18, 0, 0, 9, << <<"z","f">>, <<"r","0">>, <<"=">> >>),
    Instr(FlagBase + 19, 0, 0, 9, << <<"$","z">>, <<"z","f">>, <<":","=">> >>),
    Instr(FlagBase + 20, ProgEnd, 0, 1, << <<"1","0">>, <<"p","c">>, <<"=">> >>),
    Instr(FlagBase + 21, 0, 0, 9, << <<"x">>, <<"r","0">>, <<"=">>, <<"$","z">>, <<"z","f">>, <<":","=">> >>),
    Instr(FlagBase + 22, 0, 0, 9, << <<"x">>, <<"?","{">>, <<"$","z">>, <<"z","f">>, <<":","=">>, <<"}">> >>),
    Instr(FlagBase + 23, ProgEnd, 0, 1, << <<"1","0">>, <<"p","c">>, <<"=">> >>) >>

FlagAddrs == (FlagBase + 1) .. (FlagBase + Len(Flags))

\* The first instructions of the fragments.
FlagEntries == {FlagBase + k : k \in {1, 5, 8, 11, 14, 17, 21}}

CodeAddrs == Addrs \cup LibAddrs \cup ThunkAddrs \cup FlagAddrs

\* The instruction the binary holds at address a.
Binary(a) ==
    IF a \in Addrs THEN Program[a]
    ELSE IF a \in ThunkAddrs THEN Thunk[a - ThunkBase]
    ELSE IF a \in FlagAddrs THEN Flags[a - FlagBase]
    ELSE LibInstr(a)

\* The last address of the function that holds pc.
FunctionEnd(pc) ==
    IF pc \in Addrs THEN ProgEnd
    ELSE IF pc \in ThunkAddrs THEN ThunkBase + Len(Thunk)
    ELSE IF pc \in FlagAddrs THEN FlagBase + Len(Flags)
    ELSE LibEnd

\* r2api::disassemble(pc, n): up to n consecutive instructions from pc.
disassemble(pc, n) ==
    [i \in 1 .. (IF pc + n - 1 <= FunctionEnd(pc) THEN n ELSE FunctionEnd(pc) - pc + 1) |->
        Binary(pc + i - 1)]

\* State::memory_read_bytes(pc, 1): the code byte the state's memory holds at pc.
memory_read_byte(st, pc) ==
    IF pc \in DOMAIN st.mem THEN as_u64(st.mem[pc]) ELSE Binary(pc).bytes

\* r2api::disassemble_bytes(pc, data, 1): the instruction the byte decodes to,
\* placed at pc.
disassemble_bytes(pc, byte) ==
    IF byte \in CodeAddrs THEN << [Binary(byte) EXCEPT !.offset = pc] >>
    ELSE << [Instr(pc, 0, 0, 0, << <<>> >>) EXCEPT !.bytes = byte] >>

\* ---------------------------------------------------------------- Processor
InstructionStatusBreakFirst(cfg, pc_tmp) ==
    IF pc_tmp \in cfg.breakpoints THEN "Break"
    ELSE IF pc_tmp \in DOMAIN cfg.hooks THEN "Hook"
    ELSE IF pc_tmp \in cfg.mergepoints THEN "Merge"
    ELSE IF pc_tmp \in cfg.avoidpoints THEN "Avoid"
    ELSE IF pc_tmp \in DOMAIN cfg.sims THEN "Sim"
    ELSE "None"

\* The status fetch_instruction gives the instruction at pc_tmp.
InstructionStatus(cfg, pc_tmp) ==
    IF pc_tmp \in DOMAIN cfg.hooks THEN "Hook"
    ELSE IF pc_tmp \in cfg.breakpoints THEN "Break"
    ELSE IF pc_tmp \in cfg.mergepoints THEN "Merge"
    ELSE IF pc_tmp \in cfg.avoidpoints THEN "Avoid"
    ELSE IF pc_tmp \in DOMAIN cfg.sims THEN "Sim"
    ELSE "None"

\* Registers::is_sub(a, b): the bit range of register a lies inside that of
\* register b.
is_sub(a, b) ==
    /\ RegBounds(a).offset >= RegBounds(b).offset
    /\ RegBounds(a).offset + RegBounds(a).size <= RegBounds(b).offset + RegBounds(b).size

IsOp(word, o) == word.t = "Operator" /\ word.op = o

\* optimize: the registers the current instruction reads and writes.  A
\* register word followed by Equal or WeakEqual is written, one followed by
\* another word is read, one that ends the token list is neither.
regs_written(tokens) ==
    {tokens[i].index : i \in {j \in 1 .. (Len(tokens) - 1) :
        /\ tokens[j].t = "Register"
        /\ (IsOp(tokens[j + 1], "WeakEqual") \/ IsOp(tokens[j + 1], "Equal"))}}

regs_read(tokens) ==
    {tokens[i].index : i \in {j \in 1 .. (Len(tokens) - 1) :
        /\ tokens[j].t = "Register"
        /\ ~(IsOp(tokens[j + 1], "WeakEqual") \/ IsOp(tokens[j + 1], "Equal"))}}

\* optimize: a WeakEqual at position i of the previous instruction whose
\* register the current instruction writes and does not read.
DeadStore(prev_tokens, curr_tokens, i) ==
    /\ IsOp(prev_tokens[i], "WeakEqual")
    /\ i >= 2
    /\ prev_tokens[i - 1].t = "Register"
    /\ ~\E regr \in regs_read(curr_tokens) : is_sub(regr, prev_tokens[i - 1].index)
    /\ \E regw \in regs_written(curr_tokens) : is_sub(regw, prev_tokens[i - 1].index)

\* optimize indexes tokens[i-1], tokens[i-2] and pushes i-3 with no bounds
\* check: the positions where that leaves the token list abort the program.
OptimizePanics(prev_tokens, curr_tokens) ==
    \E i \in 1 .. Len(prev_tokens) :
        /\ IsOp(prev_tokens[i], "WeakEqual")
        /\ \/ i = 1
           \/ DeadStore(prev_tokens, curr_tokens, i) /\ i = 2
           \/ /\ DeadStore(prev_tokens, curr_tokens, i) /\ i = 3
              /\ prev_tokens[1].t = "Operator"
              /\ prev_tokens[1].op \in {"Carry", "Borrow", "Overflow", "S"}

\* optimize: the positions of the previous instruction's tokens to remove.
remove(prev_tokens, curr_tokens) ==
    UNION {
        IF IsOp(prev_tokens[i], "NoOperation") THEN {i}
        ELSE IF DeadStore(prev_tokens, curr_tokens, i) /\ i >= 3
                /\ prev_tokens[i - 2].t = "Operator"
        THEN IF prev_tokens[i - 2].op \in {"Zero", "Parity"} THEN {i - 2, i - 1, i}
             ELSE IF prev_tokens[i - 2].op \in {"Carry", "Borrow", "Overflow", "S"}
                  THEN {i - 3, i - 2, i - 1, i}
             ELSE {}
        ELSE {}
        : i \in 1 .. Len(prev_tokens)}

RECURSIVE KeepTokens(_, _, _)
\* The tokens at the positions from i on that are not removed.
KeepTokens(tokens, rem, i) ==
    IF i > Len(tokens) THEN <<>>
    ELSE (IF i \in rem THEN <<>> ELSE <<tokens[i]>>) \o KeepTokens(tokens, rem, i + 1)

\* The mark an aborted optimize leaves in place of the cache entry.
PanicEntry(entry) == [entry EXCEPT !.status = "Panic"]

\* Processor::optimize: the instruction cache after the call.
optimize(instructions, prev_pc, curr_instr) ==
    LET prev_instr == instructions[prev_pc]
        HasWeak(tokens) == \E i \in 1 .. Len(tokens) : IsOp(tokens[i], "WeakEqual")
    IN  IF ~HasWeak(prev_instr.tokens) \/ ~HasWeak(curr_instr.tokens)
        THEN instructions
        ELSE IF OptimizePanics(prev_instr.tokens, curr_instr.tokens)
        THEN [instructions EXCEPT ![prev_pc] = PanicEntry(@)]
        ELSE LET rem == remove(prev_instr.tokens, curr_instr.tokens) IN
             IF rem = {} THEN instructions
             ELSE [instructions EXCEPT
                      ![prev_pc].tokens = KeepTokens(prev_instr.tokens, rem, 1)]

\* The body of the for loop of fetch_instruction: tokenize the instruction,
\* give it its status, optimize the previous entry against it, insert it.
\* acc holds the cache, pc_tmp and prev, and the record of the calls of
\* optimize made so far (the previous entry before and after each call).
FetchOne(cfg, acc, instr) ==
    LET status == InstructionStatus(cfg, acc.pc_tmp)
        opt == cfg.optimized /\ ~cfg.selfmodify /\ status = "None"
        instr_entry == [instruction |-> instr, tokens |-> tokenize(instr.esil),
                        status |-> status]
    IN  Let(instr_entry,
            LAMBDA entry :
               Let(IF opt /\ acc.prev # NoneVal
                   THEN optimize(acc.instructions, acc.prev, entry)
                   ELSE acc.instructions,
                   LAMBDA optimized :
                      [instructions |->
                          [a \in (DOMAIN optimized) \cup {acc.pc_tmp} |->
                              IF a = acc.pc_tmp THEN entry ELSE optimized[a]],
                       pc_tmp |-> acc.pc_tmp + instr.size,
                       prev |-> IF opt THEN acc.pc_tmp ELSE acc.prev,
                       calls |-> IF opt /\ acc.prev # NoneVal
                                 THEN Append(acc.calls,
                                             [prev |-> acc.prev, curr |-> acc.pc_tmp,
                                              before |-> acc.instructions[acc.prev],
                                              after |-> optimized[acc.prev]])
                                 ELSE acc.calls]))

RECURSIVE FetchLoop(_, _, _)
\* The for loop of fetch_instruction over the disassembled instructions, in
\* order: over the first half of the list, then over the rest.
FetchLoop(cfg, acc, instrs) ==
    IF instrs = <<>> THEN acc
    ELSE IF Len(instrs) = 1 THEN FetchOne(cfg, acc, instrs[1])
    ELSE LET h == Len(instrs) \div 2 IN
         Let(FetchLoop(cfg, acc, SubSeq(instrs, 1, h)),
             LAMBDA mid : FetchLoop(cfg, mid, SubSeq(instrs, h + 1, Len(instrs))))

fetch_instructionEvictsHit(cfg, instructions, st, pc_val) ==
    IF pc_val \in DOMAIN instructions
    THEN [a \in (DOMAIN instructions) \ {pc_val} |-> instructions[a]]
    ELSE FetchLoop(cfg, [instructions |-> instructions, pc_tmp |-> pc_val, prev |-> NoneVal, calls |-> <<>>],
                   IF cfg.selfmodify
                   THEN disassemble_bytes(pc_val, memory_read_byte(st, pc_val))
                   ELSE disassemble(pc_val, INSTR_NUM)).instructions

fetch_instructionNoCompare(cfg, instructions, st, pc_val) ==
    IF pc_val \in DOMAIN instructions
    THEN instructions
    ELSE FetchLoop(cfg, [instructions |-> instructions, pc_tmp |-> pc_val, prev |-> NoneVal, calls |-> <<>>],
                   IF cfg.selfmodify
                   THEN disassemble_bytes(pc_val, memory_read_byte(st, pc_val))
                   ELSE disassemble(pc_val, INSTR_NUM)).instructions

\* The state of fetch_instruction's loop when the call returns.
FetchBatch(cfg, instructions, st, pc_val) ==
    LET has_instr == pc_val \in DOMAIN instructions
        start == [instructions |-> instructions, pc_tmp |-> pc_val, prev |-> NoneVal,
                  calls |-> <<>>]
    IN
    IF cfg.selfmodify \/ ~has_instr
    THEN IF cfg.selfmodify
         THEN IF has_instr /\ memory_read_byte(st, pc_val) = instructions[pc_val].instruction.bytes
              THEN start
              ELSE FetchLoop(cfg, start,
                             disassemble_bytes(pc_val, memory_read_byte(st, pc_val)))
         ELSE FetchLoop(cfg, start, disassemble(pc_val, INSTR_NUM))
    ELSE start

\* Processor::fetch_instruction: the instruction cache after the call.
fetch_instruction(cfg, instructions, st, pc_val) ==
    FetchBatch(cfg, instructions, st, pc_val).instructions

\* The hooks and sims of the model.  A hook appends its name and the PC it
\* finds in the state to the state's hook log and returns its result; a sim
\* returns a value and may move the PC.
HookCall(st, hook) ==
    [st EXCEPT !.hooklog = Append(@, [id |-> hook.id, pc |-> as_u64(get_pc(st))])]

RECURSIVE RunHooksUntilFalse(_, _, _)
RunHooksUntilFalse(st, hooks, skip) ==
    IF hooks = <<>> \/ skip THEN [st |-> st, skip |-> skip]
    ELSE RunHooksUntilFalse(HookCall(st, Head(hooks)), Tail(hooks),
                            (~Head(hooks).ret) \/ skip)

RECURSIVE RunHooks(_, _, _)
\* The for loop of the Hook branch of execute: the state after the hooks and
\* the accumulated skip flag.
RunHooks(st, hooks, skip) ==
    IF hooks = <<>> THEN [st |-> st, skip |-> skip]
    ELSE RunHooks(HookCall(st, Head(hooks)), Tail(hooks),
                  (~Head(hooks).ret) \/ skip)

\* r2api::get_ret: the ESIL of a return.
get_ret == << <<"l","r">>, <<"p","c">>, <<"=">> >>

\* Processor::ret
ret(st) == parse(st, tokenize(get_ret))

\* A sim: "ret4" returns 4 and leaves the PC; "exit" returns 0 and moves the PC
\* to the exit stub.
SimRun(st, sim) ==
    IF sim = "exit" THEN [st |-> set_pc(st, Concrete(ProgEnd)), ret |-> Concrete(0)]
    ELSE [st |-> st, ret |-> Concrete(4)]

NewStatusNoUnderflow(cfg, st, instr, status) ==
    IF st.status = "PostMerge" /\ status = "Merge" THEN "None" ELSE status

NewStatusNoPostMerge(cfg, st, instr, status) ==
    IF instr.type_num = RETN_TYPE /\ st.backtrace = <<>> /\ status = "None"
    THEN IF cfg.breakpoints # {} THEN "Avoid" ELSE "Break"
    ELSE status

\* The status execute dispatches on: the PostMerge and return-underflow
\* reclassifications of the cached status.
NewStatus(cfg, st, instr, status) ==
    LET s1 == IF st.status = "PostMerge" /\ status = "Merge" THEN "None" ELSE status IN
    IF instr.type_num = RETN_TYPE /\ st.backtrace = <<>> /\ s1 = "None"
    THEN IF cfg.breakpoints # {} THEN "Avoid" ELSE "Break"
    ELSE s1

\* [jump, fail] with every zero entry dropped.
StagedPcsDropZeros(instr) ==
    (IF instr.jump # 0 THEN <<instr.jump>> ELSE <<>>)
        \o (IF instr.fail # 0 THEN <<instr.fail>> ELSE <<>>)

\* esil.pcs as execute stages it from the instruction's jump and fail.
StagedPcs(instr) ==
    IF instr.jump # 0
    THEN IF instr.fail # 0 THEN <<instr.jump, instr.fail>> ELSE <<instr.jump>>
    ELSE <<>>

\* The backtrace after execute's call/return bookkeeping.
Backtrace(cfg, st, instr, status) ==
    IF instr.type_num = CALL_TYPE THEN Append(st.backtrace, instr.offset + instr.size)
    ELSE IF instr.type_num = RETN_TYPE
         THEN IF st.backtrace = <<>>
              THEN <<>>
              ELSE SubSeq(st.backtrace, 1, Len(st.backtrace) - 1)
    ELSE st.backtrace

\* Processor::execute
execute(cfg, st, instr, status, words) ==
    LET pc == instr.offset
        new_pc == instr.offset + instr.size
        new_status == NewStatus(cfg, st, instr, status)
        ran == new_status \in {"None", "Hook", "Sim"}
        s1 == [st EXCEPT
                 !.pcs = StagedPcs(instr),
                 !.status = IF st.status = "PostMerge" /\ status = "Merge" THEN "Active" ELSE @,
                 !.backtrace = Backtrace(cfg, st, instr, status),
                 !.xcalls = IF ran /\ instr.type_num = CALL_TYPE THEN @ + 1 ELSE @,
                 !.xrets = IF ran /\ instr.type_num = RETN_TYPE THEN @ + 1 ELSE @,
                 !.ran = ran]
    IN  CASE new_status = "None" -> parse(set_pc(s1, Concrete(new_pc)), words)
          [] new_status = "Hook" ->
                LET h == RunHooks(set_pc(s1, Concrete(new_pc)), cfg.hooks[pc], FALSE)
                IN  IF ~h.skip THEN parse(h.st, words) ELSE h.st
          [] new_status = "Sim" ->
                LET r == SimRun(set_pc(s1, Concrete(new_pc)), cfg.sims[pc])
                    s2 == [r.st EXCEPT !.regs[R0Idx] = r.ret,
                                       !.backtrace = IF @ = <<>> THEN <<>>
                                                     ELSE SubSeq(@, 1, Len(@) - 1)]
                IN  IF as_u64(get_pc(s2)) = new_pc THEN ret(s2) ELSE s2
          [] new_status = "Break" -> [s1 EXCEPT !.status = "Break"]
          [] new_status = "Merge" -> [s1 EXCEPT !.status = "Merge"]
          [] OTHER -> [s1 EXCEPT !.status = "Inactive"]

\* Processor::execute_instruction: fetch, then execute the cached entry.
execute_instruction(cfg, instructions, st, pc_val) ==
    Let(fetch_instruction(cfg, instructions, st, pc_val),
        LAMBDA cache :
            [instructions |-> cache,
             st |-> IF \E a \in DOMAIN cache : cache[a].status = "Panic"
                    THEN [st EXCEPT !.panic = TRUE]
                    ELSE execute(cfg, st, cache[pc_val].instruction, cache[pc_val].status,
                                 cache[pc_val].tokens)])

\* The candidates with the concrete PC taken before the forced fanout.
StepPcsConcreteFirst(cfg, st, new_pc) ==
    IF as_u64(new_pc) # NoneVal THEN {<<as_u64(new_pc)>>}
    ELSE IF (cfg.force \/ cfg.lazy) /\ st.pcs # <<>> THEN {st.pcs}
    ELSE evaluate_many(st.asserts, new_pc)

\* The candidate successor PCs of step, for each order the solver may return
\* its values in.
StepPcs(cfg, st, new_pc) ==
    IF cfg.force /\ st.pcs # <<>> THEN {st.pcs}
    ELSE IF as_u64(new_pc) # NoneVal THEN {<<as_u64(new_pc)>>}
    ELSE IF cfg.lazy /\ st.pcs # <<>> THEN {st.pcs}
    ELSE evaluate_many(st.asserts, new_pc)

\* Whether step moved esil.pcs out of the state.
PcsTaken(cfg, st, new_pc) ==
    (cfg.force /\ st.pcs # <<>>)
    \/ (as_u64(new_pc) = NoneVal /\ cfg.lazy /\ st.pcs # <<>>)

\* One successor of step: the PC is asserted equal to the candidate when the
\* computed PC is a bit-vector, and set to the candidate.
Successor(st, new_pc, new_pc_val) ==
    LET a == {w \in Worlds : new_pc.f[w] = new_pc_val}
        s1 == IF new_pc.sym THEN [st EXCEPT !.asserts = solver_assert(@, a)] ELSE st
    IN  set_pc(s1, Concrete(new_pc_val))

RECURSIVE StepStatesShared(_, _, _)
StepStatesShared(st, new_pc, pcs) ==
    IF Len(pcs) = 1 /\ as_u64(new_pc) # NoneVal THEN <<st>>
    ELSE IF pcs = <<>> THEN <<>>
    ELSE LET s1 == Successor(st, new_pc, Head(pcs))
         IN  <<s1>> \o StepStatesShared(s1, Symbolic(new_pc.f), Tail(pcs))

\* The vector of states step returns for the candidate PCs pcs.
StepStates(st, new_pc, pcs) ==
    IF Len(pcs) = 1 /\ as_u64(new_pc) # NoneVal THEN <<st>>
    ELSE [i \in 1 .. Len(pcs) |-> Successor(st, new_pc, pcs[i])]

\* Processor::step: the possible outcomes (one per order of the solver's
\* values): the cache, the returned states, and the computed PC and the
\* candidate PCs they were made from.
step(cfg, instructions, state) ==
    LET pc_value == get_pc(state)
        Fanout(x) ==
            LET new_pc == get_pc(x.st)
                s1 == IF PcsTaken(cfg, x.st, new_pc) THEN [x.st EXCEPT !.pcs = <<>>] ELSE x.st
            IN  { [instructions |-> x.instructions,
                   states |-> StepStates(s1, new_pc, pcs),
                   executed |-> x.st,
                   new_pc |-> new_pc,
                   pcs |-> pcs] : pcs \in StepPcs(cfg, x.st, new_pc) }
    IN  Let(IF as_u64(pc_value) # NoneVal
            THEN execute_instruction(cfg, instructions, state, as_u64(pc_value))
            ELSE [instructions |-> instructions, st |-> state],
            Fanout)

\* The arriving state's assertions as one formula.
MergeAssertion(state) == and_all(state.asserts)

MergeRegsSwapped(state, merge_state) ==
    [index \in RegIdx |->
        conditional(BoolValue(MergeAssertion(state)), merge_state.regs[index],
                    state.regs[index])]

\* The merged register file: ITE(A, arriving, parked) at every index.
MergeRegs(state, merge_state) ==
    [index \in RegIdx |->
        conditional(BoolValue(MergeAssertion(state)), state.regs[index],
                    merge_state.regs[index])]

MergeMemParkedOnly(state, merge_state) ==
    [addr \in addresses(merge_state.mem) |->
        conditional(BoolValue(MergeAssertion(state)), read_value(state.mem, addr),
                    read_value(merge_state.mem, addr))]

\* The merged memory: ITE(A, arriving, parked) at every address of the union.
MergeMem(state, merge_state) ==
    [addr \in addresses(merge_state.mem) \cup addresses(state.mem) |->
        conditional(BoolValue(MergeAssertion(state)), read_value(state.mem, addr),
                    read_value(merge_state.mem, addr))]

MergeAssertsAppended(state, merge_state) ==
    solver_assert(merge_state.asserts, MergeAssertion(state))

\* The merged assertion list: the single formula and_all(parked) OR A.
MergeAsserts(state, merge_state) ==
    solver_assert(<<>>, and_all(merge_state.asserts) \cup MergeAssertion(state))

mergeNotReinstalled(merges, state) ==
    LET pc == as_u64(state.regs[PCIdx]) IN
    IF pc \notin DOMAIN merges
    THEN [a \in (DOMAIN merges) \cup {pc} |-> IF a = pc THEN state ELSE merges[a]]
    ELSE [a \in (DOMAIN merges) \ {pc} |-> merges[a]]

\* merge with the merged values installed in the arriving state.
mergeIntoArriving(merges, state) ==
    LET pc == as_u64(state.regs[PCIdx]) IN
    IF pc \notin DOMAIN merges
    THEN [a \in (DOMAIN merges) \cup {pc} |-> IF a = pc THEN state ELSE merges[a]]
    ELSE [merges EXCEPT ![pc] =
            [state EXCEPT !.regs = MergeRegs(state, merges[pc]),
                          !.mem = MergeMem(state, merges[pc]),
                          !.asserts = MergeAsserts(state, merges[pc])]]

\* Processor::merge: the pending-merges map after the call.
merge(merges, state) ==
    LET pc == as_u64(state.regs[PCIdx]) IN
    IF pc \notin DOMAIN merges
    THEN [a \in (DOMAIN merges) \cup {pc} |-> IF a = pc THEN state ELSE merges[a]]
    ELSE [merges EXCEPT ![pc] =
            [merges[pc] EXCEPT !.regs = MergeRegs(state, merges[pc]),
                               !.mem = MergeMem(state, merges[pc]),
                               !.asserts = MergeAsserts(state, merges[pc])]]

\* ------------------------------------------------------------- the run loop
VARIABLES
    cfg,            \* the Processor's options and registries (set before run)
    split,          \* run's split argument
    instructions,   \* Processor.instructions, the instruction cache
    merges,         \* Processor.merges, the pending merges: PC -> State
    states,         \* run's worklist
    runpc,          \* "running", or "returned" / "aborted" once run has ended
    result,         \* the collection run returned
    last,           \* what the latest loop iteration did
    arrivals        \* per pending merge, the path constraints of the states that
                    \* arrived at it (history, not read by the program)

vars == <<cfg, split, instructions, merges, states, runpc, result, last, arrivals>>

EmptyMap == [a \in {} |-> 0]

Hook(i, r) == [id |-> i, ret |-> r]

Registry(h, b, m, a, s) ==
    [hooks |-> h, breakpoints |-> b, mergepoints |-> m, avoidpoints |-> a, sims |-> s]

At(a, v) == [k \in {a} |-> v]

\* The registry configurations runs are started with.
Registries == {
    Registry(EmptyMap, {}, {}, {}, EmptyMap),
    Registry(EmptyMap, {6}, {}, {}, EmptyMap),
    Registry(EmptyMap, {4}, {}, {}, EmptyMap),
    Registry(EmptyMap, {5}, {}, {}, EmptyMap),
    Registry(EmptyMap, {}, {5}, {}, EmptyMap),
    Registry(EmptyMap, {6}, {5}, {}, EmptyMap),
    Registry(EmptyMap, {8}, {5}, {}, EmptyMap),
    Registry(EmptyMap, {6}, {3}, {}, EmptyMap),
    Registry(EmptyMap, {}, {1}, {}, EmptyMap),
    Registry(EmptyMap, {}, {3, 5}, {}, EmptyMap),
    Registry(EmptyMap, {}, {5, 6}, {}, EmptyMap),
    Registry(EmptyMap, {}, {7}, {}, EmptyMap),
    Registry(EmptyMap, {}, {8}, {}, EmptyMap),
    Registry(EmptyMap, {}, {6}, {}, EmptyMap),
    Registry(EmptyMap, {}, {}, {4}, EmptyMap),
    Registry(EmptyMap, {}, {}, {5}, EmptyMap),
    Registry(EmptyMap, {6}, {}, {4}, EmptyMap),
    Registry(EmptyMap, {}, {5}, {4}, EmptyMap),
    Registry(EmptyMap, {}, {}, {}, At(7, "ret4")),
    Registry(EmptyMap, {}, {}, {}, At(7, "exit")),
    Registry(EmptyMap, {}, {5}, {}, At(7, "ret4")),
    Registry(At(5, <<Hook("h1", TRUE)>>), {}, {}, {}, EmptyMap),
    Registry(At(5, <<Hook("h1", FALSE), Hook("h2", TRUE)>>), {}, {}, {}, EmptyMap),
    Registry(At(5, <<Hook("h1", TRUE)>>), {}, {5}, {}, EmptyMap),
    Registry(At(8, <<Hook("h1", TRUE)>>), {}, {}, {}, EmptyMap),
    Registry(At(6, <<Hook("h1", TRUE)>>), {}, {}, {}, EmptyMap),
    Registry(EmptyMap, {}, {}, {}, At(ThunkBase + 3, "ret4")),
    Registry(EmptyMap, {}, {ThunkBase + 4}, {}, EmptyMap) }

\* The symbolic input x: its value is the world.
SymX == Symbolic([w \in Worlds |-> w])

\* The entry state of a run: PC at the entry, lr and ra at the exit stub, x symbolic
\* or concrete, an empty backtrace.
EntryState(entry, xval) ==
    [regs |-> [i \in RegIdx |->
                 CASE i = PCIdx -> Concrete(entry)
                   [] i \in {LRIdx, RAIdx} -> Concrete(ProgEnd)
                   [] i = XIdx -> xval
                   [] OTHER -> Concrete(0)],
     mem |-> EmptyMap,
     asserts |-> <<>>,
     backtrace |-> <<>>,
     status |-> "Active",
     pcs |-> <<>>,
     cur |-> Concrete(0),
     mode |-> "Uncon",
     temp1 |-> <<>>,
     temp2 |-> <<>>,
     stack |-> <<>>,
     condition |-> NoCond,
     panic |-> FALSE,
     hooklog |-> <<>>,
     xcalls |-> 0,
     xrets |-> 0,
     ran |-> FALSE]

NoLast == [op |-> "init"]

Init ==
    /\ \E r \in Registries, sm \in BOOLEAN, lz \in BOOLEAN, fc \in BOOLEAN :
          cfg = [selfmodify |-> sm, optimized |-> FALSE, lazy |-> lz, force |-> fc,
                 hooks |-> r.hooks, breakpoints |-> r.breakpoints,
                 mergepoints |-> r.mergepoints, avoidpoints |-> r.avoidpoints,
                 sims |-> r.sims]
    /\ split \in BOOLEAN
    /\ instructions = EmptyMap
    /\ merges = EmptyMap
    /\ \E entry \in {1, 7, 9, ThunkBase + 1}, xval \in {SymX, Concrete(0)} :
          states = <<EntryState(entry, xval)>>
    /\ runpc = "running"
    /\ result = <<>>
    /\ last = NoLast
    /\ arrivals = EmptyMap

\* The while condition of run.
Looping == runpc = "running" /\ (~split \/ Len(states) = 1)

RemoveKey(m, k) == [a \in (DOMAIN m) \ {k} |-> m[a]]

Panicked(ss) == \E i \in 1 .. Len(ss) : ss[i].panic

\* The Active | PostMerge arm of run's match: step the state and extend the
\* worklist (a panic in the evaluator aborts the run).
StepInto(current_state, rest, drained) ==
    \E o \in step(cfg, instructions, current_state) :
        /\ instructions' = o.instructions
        /\ IF o.executed.panic
           THEN /\ runpc' = "aborted"
                /\ states' = rest
           ELSE /\ runpc' = runpc
                /\ states' = rest \o o.states
        /\ last' = [op |-> "step", drained |-> drained, in |-> current_state,
                    executed |-> o.executed, new_pc |-> o.new_pc, pcs |-> o.pcs,
                    out |-> o.states, before |-> merges]

\* run, worklist not empty, front state Active or PostMerge.
RunStep ==
    /\ Looping
    /\ states # <<>>
    /\ Head(states).status \in {"Active", "PostMerge"}
    /\ StepInto(Head(states), Tail(states), FALSE)
    /\ UNCHANGED <<cfg, split, merges, result, arrivals>>

\* run, worklist not empty, front state Merge.
RunMerge ==
    /\ Looping
    /\ states # <<>>
    /\ Head(states).status = "Merge"
    /\ merges' = merge(merges, Head(states))
    /\ states' = Tail(states)
    /\ last' = [op |-> "merge", in |-> Head(states), before |-> merges]
    /\ arrivals' = LET pc == as_u64(get_pc(Head(states)))
                       old == IF pc \in DOMAIN arrivals THEN arrivals[pc] ELSE <<>>
                   IN  [a \in (DOMAIN arrivals) \cup {pc} |->
                          IF a = pc THEN Append(old, and_all(Head(states).asserts))
                          ELSE arrivals[a]]
    /\ UNCHANGED <<cfg, split, instructions, runpc, result>>

RunBreakWorklist ==
    /\ Looping
    /\ states # <<>>
    /\ Head(states).status = "Break"
    /\ result' = states
    /\ runpc' = "returned"
    /\ states' = Tail(states)
    /\ last' = [op |-> "break", in |-> Head(states)]
    /\ UNCHANGED <<cfg, split, instructions, merges, arrivals>>

\* run, worklist not empty, front state Break: return just this state.
RunBreak ==
    /\ Looping
    /\ states # <<>>
    /\ Head(states).status = "Break"
    /\ result' = <<Head(states)>>
    /\ runpc' = "returned"
    /\ states' = Tail(states)
    /\ last' = [op |-> "break", in |-> Head(states)]
    /\ UNCHANGED <<cfg, split, instructions, merges, arrivals>>

\* run, worklist not empty, front state of any other status: discard it.
RunDiscard ==
    /\ Looping
    /\ states # <<>>
    /\ Head(states).status \notin {"Active", "PostMerge", "Merge", "Break"}
    /\ states' = Tail(states)
    /\ last' = [op |-> "discard", in |-> Head(states)]
    /\ UNCHANGED <<cfg, split, instructions, merges, runpc, result, arrivals>>

\* run, worklist empty, a merge pending: take one parked state out of the
\* pending merges, mark it PostMerge and dispatch on its status (step it).
RunDrain ==
    /\ Looping
    /\ states = <<>>
    /\ merges # EmptyMap
    /\ \E key \in DOMAIN merges :
          /\ merges' = RemoveKey(merges, key)
          /\ arrivals' = RemoveKey(arrivals, key)
          /\ StepInto([merges[key] EXCEPT !.status = "PostMerge"], <<>>, TRUE)
    /\ UNCHANGED <<cfg, split, result>>

RunReturnEmptyWorklist ==
    /\ Looping
    /\ states = <<>>
    /\ result' = <<>>
    /\ runpc' = "returned"
    /\ last' = [op |-> "empty"]
    /\ UNCHANGED <<cfg, split, instructions, merges, states, arrivals>>

\* run, worklist empty, no merge pending: return the empty collection.
RunReturnEmpty ==
    /\ Looping
    /\ states = <<>>
    /\ merges = EmptyMap
    /\ result' = <<>>
    /\ runpc' = "returned"
    /\ last' = [op |-> "empty"]
    /\ UNCHANGED <<cfg, split, instructions, merges, states, arrivals>>

\* run in split mode, the while condition fails: return the worklist.
RunSplitReturn ==
    /\ runpc = "running"
    /\ split
    /\ Len(states) # 1
    /\ result' = states
    /\ runpc' = "returned"
    /\ last' = [op |-> "split"]
    /\ UNCHANGED <<cfg, split, instructions, merges, states, arrivals>>

Next ==
    \/ RunStep
    \/ RunMerge
    \/ RunBreak
    \/ RunDiscard
    \/ RunDrain
    \/ RunReturnEmpty
    \/ RunSplitReturn

Spec == Init /\ [][Next]_vars

\* ------------------------------------------------------- the fetch harness
\* fetch_instruction called directly, as the front end does, on one state whose
\* code bytes parse_expression may overwrite.  The registries hold the address
\* FetchPoint in every combination.
FetchPoint == Binary(3).offset
FetchPcs == {1, FetchPoint, LibBase + 1, LibBase + INSTR_NUM}
RegistryNames == {"hooks", "breakpoints", "mergepoints", "avoidpoints", "sims"}

\* The registries that hold address a exactly where m says.
RegistryAt(a, m) ==
    Registry(IF m["hooks"] THEN At(a, <<Hook("h1", TRUE)>>) ELSE EmptyMap,
             IF m["breakpoints"] THEN {a} ELSE {},
             IF m["mergepoints"] THEN {a} ELSE {},
             IF m["avoidpoints"] THEN {a} ELSE {},
             IF m["sims"] THEN At(a, "ret4") ELSE EmptyMap)

\* Processor::parse_expression
parse_expression(st, esil) == parse(st, tokenize(esil))

\* ESIL that overwrites the code byte at FetchPoint with the opcode of
\* instruction 7 or of instruction 4.
CodeWrites == {
    << <<"7">>, <<"3">>, <<"=","[","1","]">> >>,
    << <<"4">>, <<"3">>, <<"=","[","1","]">> >> }

FetchInit ==
    /\ \E m \in [RegistryNames -> BOOLEAN], sm \in BOOLEAN, op \in BOOLEAN :
          LET r == RegistryAt(FetchPoint, m) IN
          /\ (sm \/ op) => Cardinality({n \in RegistryNames : m[n]}) = 0
          /\ cfg = [selfmodify |-> sm, optimized |-> op, lazy |-> FALSE, force |-> FALSE,
                 hooks |-> r.hooks, breakpoints |-> r.breakpoints,
                 mergepoints |-> r.mergepoints, avoidpoints |-> r.avoidpoints,
                 sims |-> r.sims]
    /\ split = FALSE
    /\ instructions = EmptyMap
    /\ merges = EmptyMap
    /\ states = <<EntryState(1, Concrete(0))>>
    /\ runpc = "fetching"
    /\ result = <<>>
    /\ last = NoLast
    /\ arrivals = EmptyMap

\* One call of fetch_instruction.
Fetch ==
    \E pc_val \in FetchPcs :
        /\ instructions' = fetch_instruction(cfg, instructions, Head(states), pc_val)
        /\ last' = [op |-> "fetch", pc |-> pc_val, before |-> instructions]
        /\ UNCHANGED <<cfg, split, merges, states, runpc, result, arrivals>>

\* One call of parse_expression that writes a code byte of the state.
WriteCode ==
    \E esil \in CodeWrites :
        /\ states' = <<parse_expression(Head(states), esil)>>
        /\ states' # states
        /\ last' = [op |-> "write", before |-> instructions]
        /\ UNCHANGED <<cfg, split, instructions, merges, runpc, result, arrivals>>

FetchNext == Fetch \/ WriteCode

FetchSpec == FetchInit /\ [][FetchNext]_vars

\* ------------------------------------------------------- the parse harness
\* Processor::parse run token by token on one state, one parse after another.
\* The ESIL expressions parsed:
\*   x,?{,1,}
\*   5,x,?{,r0,=,}
\*   7,x,?{,1,}{,2,}
\*   7,8,x,?{,1,+,}
\*   x,?{,4,pc,=,}
\*   x,?{,BREAK,}
\*   x,?{,5,GOTO,}
\*   9,4,GOTO,8,r0,=
\*   BREAK,1,r0,=
\*   x,?{,x,?{,1,},2,}
\*   x,?{,1
\*   x,?{,1,}{,2,}{,3,}
\*   0,?{,1,r0,=,}{,2,r0,=,}
\*   1,?{,1,r0,=,}{,2,r0,=,}
\*   x,?{,1,?{,2,r0,=,},9,r0,=,}
\*   x,?{,3,r0,=,}{,1,?{,4,r0,=,},5,r0,=,}
\*   foo,r0,=
\*   x,?{,foo,bar,}
ParseInputs == {
    << <<"f","o","o">>, <<"r","0">>, <<"=">> >>,
    << <<"x">>, <<"?","{">>, <<"f","o","o">>, <<"b","a","r">>, <<"}">> >>,
    << <<"x">>, <<"?","{">>, <<"1">>, <<"}">> >>,
    << <<"5">>, <<"x">>, <<"?","{">>, <<"r","0">>, <<"=">>, <<"}">> >>,
    << <<"7">>, <<"x">>, <<"?","{">>, <<"1">>, <<"}","{">>, <<"2">>, <<"}">> >>,
    << <<"7">>, <<"8">>, <<"x">>, <<"?","{">>, <<"1">>, <<"+">>, <<"}">> >>,
    << <<"x">>, <<"?","{">>, <<"4">>, <<"p","c">>, <<"=">>, <<"}">> >>,
    << <<"x">>, <<"?","{">>, <<"B","R","E","A","K">>, <<"}">> >>,
    << <<"x">>, <<"?","{">>, <<"5">>, <<"G","O","T","O">>, <<"}">> >>,
    << <<"9">>, <<"4">>, <<"G","O","T","O">>, <<"8">>, <<"r","0">>, <<"=">> >>,
    << <<"B","R","E","A","K">>, <<"1">>, <<"r","0">>, <<"=">> >>,
    << <<"x">>, <<"?","{">>, <<"x">>, <<"?","{">>, <<"1">>, <<"}">>, <<"2">>, <<"}">> >>,
    << <<"x">>, <<"?","{">>, <<"1">> >>,
    << <<"x">>, <<"?","{">>, <<"1">>, <<"}","{">>, <<"2">>, <<"}","{">>, <<"3">>, <<"}">> >>,
    << <<"0">>, <<"?","{">>, <<"1">>, <<"r","0">>, <<"=">>, <<"}","{">>, <<"2">>, <<"r","0">>, <<"=">>, <<"}">> >>,
    << <<"1">>, <<"?","{">>, <<"1">>, <<"r","0">>, <<"=">>, <<"}","{">>, <<"2">>, <<"r","0">>, <<"=">>, <<"}">> >>,
    << <<"x">>, <<"?","{">>, <<"1">>, <<"?","{">>, <<"2">>, <<"r","0">>, <<"=">>, <<"}">>, <<"9">>, <<"r","0">>, <<"=">>, <<"}">> >>,
    << <<"x">>, <<"?","{">>, <<"3">>, <<"r","0">>, <<"=">>, <<"}","{">>, <<"1">>, <<"?","{">>, <<"4">>, <<"r","0">>, <<"=">>, <<"}">>, <<"5">>, <<"r","0">>, <<"=">>, <<"}">> >> }

\* The number of consecutive parse calls.
MaxParses == 2

\* The state parsed: x is symbolic, 0 or 1.
ParseStates == {EntryState(1, xval) : xval \in {SymX, Concrete(0), Concrete(1)}}

ParseInit ==
    /\ cfg = [selfmodify |-> FALSE, optimized |-> FALSE, lazy |-> FALSE, force |-> FALSE,
              hooks |-> EmptyMap, breakpoints |-> {}, mergepoints |-> {},
              avoidpoints |-> {}, sims |-> EmptyMap]
    /\ split = FALSE
    /\ instructions = EmptyMap
    /\ merges = EmptyMap
    /\ \E st \in ParseStates : states = <<st>>
    /\ runpc = "idle"
    /\ result = <<>>
    /\ last = [op |-> "init", parses |-> 0]
    /\ arrivals = EmptyMap

\* parse is called: the stack is cleared and the word index is at the start.
ParseStart ==
    /\ runpc \in {"idle", "parsed"}
    /\ last.parses < MaxParses
    /\ \E esil \in ParseInputs :
          last' = [op |-> "start", words |-> tokenize(esil), wi |-> 1, n |-> 0,
                   parses |-> last.parses + 1, start |-> Head(states).mode,
                   esil |-> esil]
    /\ states' = <<[Head(states) EXCEPT !.stack = <<>>]>>
    /\ runpc' = "parsing"
    /\ UNCHANGED <<cfg, split, instructions, merges, result, arrivals>>

\* One iteration of the token loop.  result keeps, for the latest IF met in
\* mode Uncon, its word index, its argument and the stack it left.
ParseToken ==
    /\ runpc = "parsing"
    /\ LET st == Head(states)
           word == last.words[last.wi]
           r == ParseWord(st, last.words, last.wi)
       IN  /\ states' = <<r.st>>
           /\ last' = [op |-> "token", words |-> last.words, word |-> word,
                       at |-> last.wi,
                       skipped |-> (r.st = st /\ st.mode = "NoExec"),
                       wi |-> r.wi, n |-> last.n + 1, before |-> st,
                       parses |-> last.parses, start |-> last.start]
           /\ runpc' = IF r.st.panic THEN "aborted"
                       ELSE IF r.brk \/ r.wi > Len(last.words) \/ last.n + 1 >= MaxWords
                       THEN "parsed" ELSE "parsing"
           /\ result' = IF word.t = "Operator" /\ word.op = "If" /\ st.mode = "Uncon"
                            /\ ~r.st.panic
                         THEN <<[at |-> last.wi, parse |-> last.parses,
                                 arg |-> TopValue(st), stack |-> r.st.stack]>>
                         ELSE result
    /\ UNCHANGED <<cfg, split, instructions, merges, arrivals>>

ParseNext == ParseStart \/ ParseToken

ParseSpec == ParseInit /\ [][ParseNext]_vars

\* --------------------------------------------------------- the fuzz loop
\* The testcase generator of main: states is its worklist, arrivals its
\* per-PC visit counter (pcs), result its output: the files written in order,
\* the seen-set (solutions) and the per-symbol counters (file_counts), with
\* the solutions obtained so far as history.

\* The symbols of the run: a is the input x, b is a value computed from it.
SymbolMap ==
    [symbol \in {<<"a">>, <<"b">>} |->
        IF symbol = <<"a">> THEN SymX
        ELSE Symbolic([w \in Worlds |-> (w + 1) % XMax])]

\* The visits of one PC a run is followed for.
MaxVisits == 2

\* format!("{}{:04}", symbol, c): the symbol followed by the decimal digits of
\* c, padded with zeros to four digits.
FileName(symbol, c) ==
    LET digit == <<"0", "1", "2", "3", "4", "5", "6", "7", "8", "9">>
        RECURSIVE Decimal(_)
        Decimal(n) == IF n < 10 THEN <<digit[n + 1]>>
                      ELSE Append(Decimal(n \div 10), digit[(n % 10) + 1])
        RECURSIVE PadZero(_, _)
        PadZero(digits, width) ==
            IF Len(digits) >= width THEN digits ELSE PadZero(<<"0">> \o digits, width)
    IN  symbol \o PadZero(Decimal(c), 4)

\* One symbol at an emission point, with the bytes the solver returned.
EmitOne(acc, symbol, bytes) ==
    LET acc1 == [acc EXCEPT !.obtained = @ \cup {<<symbol, bytes>>}]
        c == acc.file_counts[symbol]
    IN  IF bytes \in acc.solutions THEN acc1
        ELSE [acc1 EXCEPT !.files = Append(@, [name |-> FileName(symbol, c),
                                               symbol |-> symbol, bytes |-> bytes]),
                          !.file_counts[symbol] = c + 1,
                          !.solutions = @ \cup {bytes}]

RECURSIVE EmitSymbols(_, _, _)
\* The loop over symbol_map.keys(): the possible outcomes, one per choice of
\* the solver's solutions.
EmitSymbols(acc, st, symbols) ==
    IF symbols = <<>> THEN {acc}
    ELSE LET vals == SatValues(st.asserts, SymbolMap[Head(symbols)])
         IN  IF vals = {} THEN EmitSymbols(acc, st, Tail(symbols))
             ELSE UNION { EmitSymbols(EmitOne(acc, Head(symbols), bytes), st, Tail(symbols)) :
                            bytes \in vals }

\* The loop body with a state at a new PC pushed to the back.
FuzzStateNewToBack(opts, acc, new_state, tn, num_states) ==
    LET pc == as_u64(get_pc(new_state))
        active == new_state.status = "Active"
        count == IF pc \in DOMAIN acc.pcs THEN acc.pcs[pc] + 1 ELSE 1
        acc1 == [acc EXCEPT !.pcs = [a \in (DOMAIN acc.pcs) \cup {pc} |->
                                        IF a = pc THEN count ELSE acc.pcs[a]]]
    IN  IF count > 1
        THEN IF active /\ num_states <= opts.max_states
             THEN {[acc1 EXCEPT !.states = Append(@, new_state)]}
             ELSE {acc1}
        ELSE { IF active THEN [acc2 EXCEPT !.states = Append(@, new_state)] ELSE acc2 :
                 acc2 \in IF tn % 16 = 1 \/ tn % 16 = 4
                          THEN EmitSymbols(acc1, new_state, opts.symbols)
                          ELSE {acc1} }

\* The body of the loop over new_states for one state.
FuzzState(opts, acc, new_state, tn, num_states) ==
    LET pc == as_u64(get_pc(new_state))
        active == new_state.status = "Active"
        count == IF pc \in DOMAIN acc.pcs THEN acc.pcs[pc] + 1 ELSE 1
        acc1 == [acc EXCEPT !.pcs = [a \in (DOMAIN acc.pcs) \cup {pc} |->
                                        IF a = pc THEN count ELSE acc.pcs[a]]]
    IN  IF count > 1
        THEN IF active /\ num_states <= opts.max_states
             THEN {[acc1 EXCEPT !.states = Append(@, new_state)]}
             ELSE {acc1}
        ELSE { IF active THEN [acc2 EXCEPT !.states = <<new_state>> \o @] ELSE acc2 :
                 acc2 \in IF tn % 16 = 1 \/ tn % 16 = 4
                          THEN EmitSymbols(acc1, new_state, opts.symbols)
                          ELSE {acc1} }

RECURSIVE FuzzStates(_, _, _, _, _)
\* for mut new_state in new_states
FuzzStates(opts, acc, new_states, tn, num_states) ==
    IF new_states = <<>> THEN {acc}
    ELSE UNION { FuzzStates(opts, acc1, Tail(new_states), tn, num_states) :
                   acc1 \in FuzzState(opts, acc, Head(new_states), tn, num_states) }

FuzzInit ==
    /\ \E symbols \in Perms(DOMAIN SymbolMap), max_states \in {1, 2}, fc \in BOOLEAN :
          cfg = [selfmodify |-> FALSE, optimized |-> FALSE, lazy |-> FALSE, force |-> fc,
                 hooks |-> EmptyMap, breakpoints |-> {}, mergepoints |-> {},
                 avoidpoints |-> {}, sims |-> EmptyMap,
                 symbols |-> symbols, max_states |-> max_states]
    /\ split = FALSE
    /\ instructions = EmptyMap
    /\ merges = EmptyMap
    /\ \E entry \in {1, 9, ThunkBase + 1} : states = <<EntryState(entry, SymX)>>
    /\ runpc = "fuzzing"
    /\ result = [files |-> <<>>, solutions |-> {},
                 file_counts |-> [symbol \in DOMAIN SymbolMap |-> 0], obtained |-> {}]
    /\ last = NoLast
    /\ arrivals = EmptyMap

\* One iteration of while !states.is_empty(): pop the front state, step it,
\* and handle the states the step returned.
FuzzIter ==
    /\ runpc = "fuzzing"
    /\ states # <<>>
    /\ \A a \in DOMAIN arrivals : arrivals[a] <= MaxVisits
    /\ LET num_states == Len(states)
           s == Head(states)
           cpc == as_u64(get_pc(s))
       IN  \E o \in step(cfg, instructions, s) :
             /\ instructions' = o.instructions
             /\ IF o.executed.panic
                THEN /\ runpc' = "aborted"
                     /\ states' = Tail(states)
                     /\ UNCHANGED <<arrivals, result>>
                ELSE \E acc \in FuzzStates(cfg,
                                  [states |-> Tail(states), pcs |-> arrivals,
                                   files |-> result.files, solutions |-> result.solutions,
                                   file_counts |-> result.file_counts,
                                   obtained |-> result.obtained],
                                  o.states, o.instructions[cpc].instruction.type_num,
                                  num_states) :
                       /\ runpc' = runpc
                       /\ states' = acc.states
                       /\ arrivals' = acc.pcs
                       /\ result' = [files |-> acc.files, solutions |-> acc.solutions,
                                     file_counts |-> acc.file_counts,
                                     obtained |-> acc.obtained]
             /\ last' = [op |-> "fuzz", in |-> s, out |-> o.states, num_states |-> num_states]
    /\ UNCHANGED <<cfg, split, merges>>

FuzzSpec == FuzzInit /\ [][FuzzIter]_vars

\* ------------------------------------------------- the tokenizer harness
\* Processor::tokenize run on one ESIL string, one comma-separated token at
\* a time: result holds the words emitted so far, last the string, the index
\* of the token taken and the words before it.
\* The strings are a,b,f with a in TokFirst, b in TokSecond and f in TokLast.
TokFirst == { <<"1">>, <<"x">>, <<"f","o","o">> }
TokSecond == { <<"r","0">>, <<"x">>, <<"2">> }
TokWidths == { <<"1">>, <<"2">>, <<"4">>, <<"8">> }
TokLast ==
    {o \o <<"=">> : o \in OPS}
    \cup {o \o <<"=","[">> \o n \o <<"]">> : o \in OPS, n \in TokWidths}
    \cup { <<"=">>, <<"+">>, <<"[","4","]">>, <<"r","0">>, <<"7">>, <<"b","a","r">>,
           <<"b","a","r","=">>, <<"[","3","]">> }

TokInputs == {<<a, b, f>> : a \in TokFirst, b \in TokSecond, f \in TokLast}

TokInit ==
    /\ cfg = [selfmodify |-> FALSE, optimized |-> FALSE, lazy |-> FALSE, force |-> FALSE,
              hooks |-> EmptyMap, breakpoints |-> {}, mergepoints |-> {},
              avoidpoints |-> {}, sims |-> EmptyMap]
    /\ split = FALSE
    /\ instructions = EmptyMap
    /\ merges = EmptyMap
    /\ states = <<>>
    /\ runpc = "tokenizing"
    /\ result = <<>>
    /\ \E esil \in TokInputs : last = [op |-> "esil", esil |-> esil, i |-> 0]
    /\ arrivals = EmptyMap

\* One iteration of the loop of tokenize.
TokStep ==
    /\ runpc = "tokenizing"
    /\ last.i < Len(last.esil)
    /\ result' = TokenizeOne(result, last.esil[last.i + 1])
    /\ last' = [op |-> "tok", esil |-> last.esil, i |-> last.i + 1,
                s |-> last.esil[last.i + 1], before |-> result]
    /\ UNCHANGED <<cfg, split, instructions, merges, states, runpc, arrivals>>

TokSpec == TokInit /\ [][TokStep]_vars

\* ------------------------------------------------- the optimizer harness
\* One entry state run twice over a flag-writing fragment, instruction by
\* instruction: states[1] by a processor that does not optimize, states[2] by
\* one that does and whose cache is `instructions`.  (The cache of the first
\* processor is a function of the addresses and need not be kept.)  A hook
\* may sit on the instruction in the middle of the sixth fragment.
HookPoint == FlagBase + 18
FlagInputs == {0, 1}
FlagInits == {0, 2}

OptInit ==
    /\ \E hooked \in BOOLEAN :
          cfg = [selfmodify |-> FALSE, optimized |-> TRUE, lazy |-> FALSE, force |-> FALSE,
                 hooks |-> IF hooked THEN At(HookPoint, <<Hook("h1", TRUE)>>) ELSE EmptyMap,
                 breakpoints |-> {}, mergepoints |-> {}, avoidpoints |-> {},
                 sims |-> EmptyMap]
    /\ split = FALSE
    /\ instructions = EmptyMap
    /\ merges = EmptyMap
    /\ \E entry \in FlagEntries, xval \in FlagInputs, fl \in FlagInits :
          LET s == EntryState(entry, Concrete(xval))
              s0 == [s EXCEPT !.regs = set_value(@, FLIdx, Concrete(fl))]
          IN  states = <<s0, s0>>
    /\ runpc = "optimizing"
    /\ result = <<>>
    /\ last = NoLast
    /\ arrivals = EmptyMap

\* Both processors step their state (a state that has reached the exit stub
\* stays there).
OptStep ==
    /\ runpc = "optimizing"
    /\ \E i \in 1 .. 2 : as_u64(get_pc(states[i])) # ProgEnd
    /\ LET plain == [cfg EXCEPT !.optimized = FALSE]
           AtExit(s) == as_u64(get_pc(s)) = ProgEnd
       IN  \E o1 \in step(plain, EmptyMap, states[1]),
              o2 \in step(cfg, instructions, states[2]) :
               /\ states' = << IF AtExit(states[1]) THEN states[1] ELSE o1.states[1],
                               IF AtExit(states[2]) THEN states[2] ELSE o2.states[1] >>
               /\ instructions' = IF AtExit(states[2]) THEN instructions ELSE o2.instructions
               /\ last' = [op |-> "optstep", in |-> states,
                           calls |-> IF AtExit(states[2]) THEN <<>>
                                     ELSE FetchBatch(cfg, instructions, states[2],
                                                     as_u64(get_pc(states[2]))).calls]
    /\ UNCHANGED <<cfg, split, merges, runpc, result, arrivals>>

OptSpec == OptInit /\ [][OptStep]_vars

\* ------------------------------------------------------------------ claims
Range(q) == {q[i] : i \in 1 .. Len(q)}

\* Every state the engine holds: the worklist, the pending merges, the result.
AllStates == Range(states) \cup {merges[k] : k \in DOMAIN merges} \cup Range(result)

\* The address of the instruction the latest step was taken at, and its
\* cache entry.
LastPc == as_u64(get_pc(last.in))
LastEntry == instructions[LastPc]

\* The constraints of S entail that the PC computed by the latest step is S's
\* concrete PC.
StepEntails(S) ==
    /\ as_u64(get_pc(S)) # NoneVal
    /\ \A w \in and_all(S.asserts) : last.new_pc.f[w] = as_u64(get_pc(S))

\* C1: every state returned by step has a concrete PC p and its
\* constraints entail that the PC computed by the executed instruction equals
\* p, with force and lazy on or off.
C1_StepEntailsPc ==
    last.op = "step" => \A i \in 1 .. Len(last.out) : StepEntails(last.out[i])

\* C2: in every state the engine holds, the backtrace depth is the number of
\* call-type instructions executed on its path minus the number of
\* return-type instructions executed on its path.
C2_BacktraceDepth ==
    \A S \in AllStates : Len(S.backtrace) = S.xcalls - S.xrets

\* The latest step reached a return-type instruction of status None with an
\* empty backtrace.
ReturnUnderflow ==
    /\ last.op = "step"
    /\ LastPc # NoneVal
    /\ LastEntry.instruction.type_num = RETN_TYPE
    /\ LastEntry.status = "None"
    /\ last.in.backtrace = <<>>

\* C3: a return-type instruction of status None reached with an empty
\* backtrace is not evaluated and does not move the PC; the state ends
\* Inactive when a breakpoint is registered and Break otherwise, and it is the
\* only state step returns.
C3_ReturnUnderflow ==
    ReturnUnderflow =>
        /\ ~last.executed.ran
        /\ last.executed.regs = last.in.regs
        /\ last.executed.mem = last.in.mem
        /\ last.executed.status = IF cfg.breakpoints # {} THEN "Inactive" ELSE "Break"
        /\ last.out = <<last.executed>>
        /\ as_u64(get_pc(last.out[1])) = LastPc

C3_Witness == ReturnUnderflow /\ cfg.breakpoints # {}

\* The latest iteration merged an arriving state into a parked one.
MergePc == as_u64(get_pc(last.in))
MergeCase == last.op = "merge" /\ MergePc \in DOMAIN last.before
Parked == last.before[MergePc]
Merged == merges[MergePc]
Arriving == last.in

\* C4: when the arriving and the parked state have mutually exclusive
\* constraints, then under every assignment satisfying the merged state each
\* register and memory byte of the merged state has the value it has in the
\* original state whose constraints the assignment satisfies.
C4_MergeSound ==
    (MergeCase /\ and_all(Parked.asserts) \cap and_all(Arriving.asserts) = {}) =>
        \A w \in and_all(Merged.asserts) :
            LET O == IF w \in and_all(Arriving.asserts) THEN Arriving ELSE Parked IN
            /\ w \in and_all(O.asserts)
            /\ \A i \in RegIdx : Merged.regs[i].f[w] = O.regs[i].f[w]
            /\ \A a \in (DOMAIN Merged.mem) \cup (DOMAIN Arriving.mem) \cup (DOMAIN Parked.mem) :
                  read_value(Merged.mem, a).f[w] = read_value(O.mem, a).f[w]

C4_Witness ==
    /\ MergeCase
    /\ and_all(Parked.asserts) \cap and_all(Arriving.asserts) = {}
    /\ \E w1 \in and_all(Arriving.asserts), w2 \in and_all(Parked.asserts) :
          /\ Merged.regs[R0Idx].f[w1] = Arriving.regs[R0Idx].f[w1]
          /\ Merged.regs[R0Idx].f[w2] = Parked.regs[R0Idx].f[w2]
          /\ Merged.regs[R0Idx].f[w1] # Merged.regs[R0Idx].f[w2]

\* C5: on a later arrival, with A the conjunction of the arriving state's
\* assertions, every register of the merged state is ITE(A, arriving, parked),
\* the merged memory is defined exactly on the union of the two memories, and
\* every byte of it is ITE(A, arriving byte, parked byte).
C5_MergeIte ==
    MergeCase =>
        LET A == and_all(Arriving.asserts) IN
        /\ \A i \in RegIdx, w \in Worlds :
              Merged.regs[i].f[w] =
                 IF w \in A THEN Arriving.regs[i].f[w] ELSE Parked.regs[i].f[w]
        /\ DOMAIN Merged.mem = (DOMAIN Arriving.mem) \cup (DOMAIN Parked.mem)
        /\ \A a \in DOMAIN Merged.mem, w \in Worlds :
              Merged.mem[a].f[w] =
                 IF w \in A THEN read_value(Arriving.mem, a).f[w]
                 ELSE read_value(Parked.mem, a).f[w]

C5_Witness ==
    /\ MergeCase
    /\ DOMAIN Arriving.mem # DOMAIN Parked.mem
    /\ and_all(Arriving.asserts) \notin {{}, Worlds}

\* C6: after a later arrival the merged state's assertion list is the single
\* formula (conjunction of the parked assertions) OR (conjunction of the
\* arriving assertions); an assignment satisfies a parked state iff it
\* satisfies the constraints of one of the states that arrived at it.
C6_MergeAssertions ==
    /\ MergeCase =>
          Merged.asserts = << and_all(Parked.asserts) \cup and_all(Arriving.asserts) >>
    /\ \A pc \in DOMAIN merges :
          /\ pc \in DOMAIN arrivals
          /\ and_all(merges[pc].asserts) = UNION Range(arrivals[pc])
          /\ Len(arrivals[pc]) >= 2 => Len(merges[pc].asserts) = 1

C6_Witness ==
    \E pc \in DOMAIN merges :
        /\ Len(arrivals[pc]) >= 3
        /\ \A i \in 1 .. Len(arrivals[pc]) : arrivals[pc][i] \notin {{}, Worlds}

\* C7: every parked state is stored under its own concrete PC; a first arrival
\* is parked unchanged; a later arrival replaces the parked state of its PC by
\* the merged state; no merge call changes the state parked at another PC.
C7_MergeKeyedByPc ==
    /\ \A pc \in DOMAIN merges : as_u64(get_pc(merges[pc])) = pc
    /\ last.op = "merge" =>
          /\ DOMAIN merges = (DOMAIN last.before) \cup {MergePc}
          /\ \A k \in (DOMAIN last.before) \ {MergePc} : merges[k] = last.before[k]
          /\ MergePc \notin DOMAIN last.before => merges[MergePc] = Arriving
          /\ MergeCase =>
                and_all(Merged.asserts) =
                    and_all(Parked.asserts) \cup and_all(Arriving.asserts)

C7_Witness == MergeCase /\ Cardinality(DOMAIN merges) >= 2

\* The latest iteration drained a parked state and stepped it.
DrainStep == last.op = "step" /\ last.drained

\* C8: a drained state is not parked again; on its next step the
\* instruction's tokens are executed and its status becomes Active.
C8_DrainedExecutes ==
    DrainStep =>
        /\ last.executed.status = "Active"
        /\ last.executed.ran

\* C8, amended: a drained state is not parked again on its next step.  When
\* the instruction at its PC has status Merge it is treated as status None and
\* the state leaves PostMerge: the tokens are executed and the status becomes
\* Active, unless the instruction is a return-type instruction reached with an
\* empty backtrace, which is not executed and ends the state Break or Inactive.
C8_DrainedNotReparked ==
    DrainStep =>
        /\ last.executed.status # "Merge"
        /\ LastEntry.status = "Merge" =>
              IF LastEntry.instruction.type_num = RETN_TYPE /\ last.in.backtrace = <<>>
              THEN /\ ~last.executed.ran
                   /\ last.executed.status =
                         IF cfg.breakpoints # {} THEN "Inactive" ELSE "Break"
              ELSE /\ last.executed.ran
                   /\ last.executed.status = "Active"
                   /\ last.executed.regs # last.in.regs

C8_Witness ==
    /\ DrainStep
    /\ LastEntry.status = "Merge"
    /\ last.executed.ran
    /\ last.executed.status = "Active"

\* C9: in non-split mode run returns nothing or exactly one state of status
\* Break; only Active and PostMerge states are stepped, a Merge state is
\* handed to merge as it is, and an Inactive state is discarded.
C9_NonSplitRun ==
    ~split =>
        /\ runpc = "returned" =>
              result = <<>> \/ (Len(result) = 1 /\ result[1].status = "Break")
        /\ last.op = "step" => last.in.status \in {"Active", "PostMerge"}
        /\ last.op = "merge" =>
              /\ Arriving.status = "Merge"
              /\ MergePc \notin DOMAIN last.before => merges[MergePc] = Arriving
        /\ last.op = "discard" => last.in.status = "Inactive"

C9_Witness ==
    /\ ~split
    /\ runpc = "returned"
    /\ Len(result) = 1
    /\ states # <<>>

\* C10: in non-split mode run returns the empty collection only when no merge
\* is pending; whenever the worklist is empty and a merge is pending, the next
\* iteration removes one parked state from the pending merges, marks it
\* PostMerge and steps it.
C10_DrainBeforeEmpty ==
    /\ [](~split =>
            /\ (runpc = "returned" /\ result = <<>>) => merges = EmptyMap
            /\ DrainStep =>
                  \E key \in DOMAIN last.before :
                     /\ merges = RemoveKey(last.before, key)
                     /\ last.in = [last.before[key] EXCEPT !.status = "PostMerge"])
    /\ [][(~split /\ runpc = "running" /\ states = <<>> /\ merges # EmptyMap) =>
            /\ last'.op = "step"
            /\ last'.drained
            /\ last'.before = merges
            /\ Cardinality(DOMAIN merges') = Cardinality(DOMAIN merges) - 1]_vars

C10_Witness == ~split /\ DrainStep /\ last.in.status = "PostMerge"

\* C11: in split mode run returns only when the worklist holds more than one
\* state after a step (all are returned), when a Break state was popped (only
\* it is returned), or when the worklist is empty and no merge is pending.
C11_SplitReturn ==
    (split /\ runpc = "returned") =>
        \/ Len(result) > 1 /\ result = states
        \/ Len(result) = 1 /\ result[1].status = "Break"
        \/ result = <<>> /\ merges = EmptyMap

\* C12: the status cached for an instruction is that of the first registry,
\* in the order hooks, breakpoints, mergepoints, avoidpoints, sims, that holds
\* its address, and None when no registry holds it.
C12_StatusPriority ==
    runpc = "fetching" =>
        \A a \in DOMAIN instructions :
            LET st == instructions[a].status
                h == a \in DOMAIN cfg.hooks
                b == a \in cfg.breakpoints
                m == a \in cfg.mergepoints
                v == a \in cfg.avoidpoints
                s == a \in DOMAIN cfg.sims
            IN  /\ st = "Hook" <=> h
                /\ st = "Break" <=> (~h /\ b)
                /\ st = "Merge" <=> (~h /\ ~b /\ m)
                /\ st = "Avoid" <=> (~h /\ ~b /\ ~m /\ v)
                /\ st = "Sim" <=> (~h /\ ~b /\ ~m /\ ~v /\ s)
                /\ st = "None" <=> (~h /\ ~b /\ ~m /\ ~v /\ ~s)

C12_Witness ==
    /\ runpc = "fetching"
    /\ FetchPoint \in DOMAIN instructions
    /\ FetchPoint \in DOMAIN cfg.hooks
    /\ FetchPoint \in cfg.breakpoints
    /\ FetchPoint \in cfg.mergepoints
    /\ FetchPoint \in cfg.avoidpoints
    /\ FetchPoint \in DOMAIN cfg.sims
    /\ instructions[FetchPoint].status = "Hook"

\* C13: calling fetch_instruction again at the same PC, with the state's
\* memory and the registries unchanged, leaves the instruction cache as the
\* first call left it.
C13_FetchIdempotent ==
    last.op = "fetch" =>
        fetch_instruction(cfg, instructions, Head(states), last.pc) = instructions

C13_Witness ==
    /\ last.op = "fetch"
    /\ cfg.selfmodify
    /\ last.pc \in DOMAIN last.before
    /\ instructions # last.before

\* C14: with self-modify off, a fetch_instruction call changes no entry that
\* was cached before the call.
C14_CachedEntryStable ==
    (last.op = "fetch" /\ ~cfg.selfmodify) =>
        \A a \in DOMAIN last.before :
            a \in DOMAIN instructions /\ instructions[a] = last.before[a]

\* C15: with self-modify on, after fetch_instruction(state, pc) the entry at pc
\* is the decode of the byte the state's memory holds at pc: an entry whose
\* bytes equal that byte is kept and the cache is unchanged, otherwise exactly
\* the entry at pc is replaced by a fresh decode of one instruction.
C15_SelfModifyDecodesMemory ==
    (last.op = "fetch" /\ cfg.selfmodify) =>
        LET byte == memory_read_byte(Head(states), last.pc)
            fresh == disassemble_bytes(last.pc, byte)[1]
            hit == /\ last.pc \in DOMAIN last.before
                   /\ last.before[last.pc].instruction.bytes = byte
        IN  /\ last.pc \in DOMAIN instructions
            /\ instructions[last.pc].instruction = fresh
            /\ instructions[last.pc].tokens = tokenize(fresh.esil)
            /\ instructions[last.pc].instruction.offset = last.pc
            /\ hit => instructions = last.before
            /\ DOMAIN instructions = (DOMAIN last.before) \cup {last.pc}
            /\ \A a \in (DOMAIN last.before) \ {last.pc} : instructions[a] = last.before[a]

C15_Witness ==
    /\ last.op = "fetch"
    /\ cfg.selfmodify
    /\ last.pc \in DOMAIN last.before
    /\ instructions[last.pc].instruction.esil # last.before[last.pc].instruction.esil
    /\ instructions[last.pc].instruction.esil # Binary(last.pc).esil

ParseState == Head(states)

\* The symbolic IF that is open: its argument and the stack it left.
OpenIf == result[1]

\* The last token was executed (not skipped in NoExec mode) and is operator o.
Reached(o) ==
    /\ last.op = "token"
    /\ ~last.skipped
    /\ last.word.t = "Operator"
    /\ last.word.op = o

ClosesSymbolicIf == Reached("EndIf") /\ last.before.mode \in {"If", "Else"}

\* The stacks the two branches left, as ENDIF finds them.
IfBranchStack ==
    IF last.before.mode = "If" THEN last.before.stack ELSE last.before.temp2

ElseBranchStack ==
    IF last.before.mode = "If" THEN OpenIf.stack ELSE last.before.stack

FromTop(q, k) == q[Len(q) + 1 - k]

Larger(a, b) == IF a >= b THEN a ELSE b

Smaller(a, b) == IF a <= b THEN a ELSE b

\* C16: in every evaluator state, between tokens, after parse returns and
\* across consecutive parse calls, condition is Some if and only if mode is
\* If or Else.
C16_ConditionIffMode ==
    ParseState.condition.some <=> ParseState.mode \in {"If", "Else"}

C16_Witness ==
    /\ last.op = "start"
    /\ last.parses = MaxParses
    /\ ParseState.mode = "If"
    /\ ParseState.condition.some

\* C17: after ENDIF closes a symbolic IF, the item at each position from the
\* top of the resulting stack is a value that equals the if-branch's item at
\* that position where the IF argument is nonzero and the else-branch's item
\* (with no ELSE, the item on the stack at IF) elsewhere; the pair of tops is
\* the new top.
C17_EndIfIte ==
    ClosesSymbolicIf =>
        LET out == ParseState.stack
            n == Smaller(Len(IfBranchStack), Len(ElseBranchStack))
        IN  /\ Len(out) = n
            /\ \A k \in 1 .. n :
                  /\ ~FromTop(out, k).reg
                  /\ \A w \in Worlds :
                        FromTop(out, k).val.f[w] =
                            IF OpenIf.arg.f[w] # 0
                            THEN ItemValue(last.before, FromTop(IfBranchStack, k)).f[w]
                            ELSE ItemValue(last.before, FromTop(ElseBranchStack, k)).f[w]

C17_Witness ==
    /\ ClosesSymbolicIf
    /\ last.before.mode = "Else"
    /\ Len(ParseState.stack) = 2
    /\ ParseState.stack[1] # ParseState.stack[2]
    /\ \E w, v \in Worlds : ParseState.stack[2].val.f[w] # ParseState.stack[2].val.f[v]

\* C18: after ENDIF closes a symbolic IF the stack is as high as the higher of
\* the stack at IF and the stacks the branches left, and while a branch runs
\* the stack never gets lower than it was at IF.
C18_EndIfHeight ==
    /\ ClosesSymbolicIf =>
          Len(ParseState.stack) =
              Larger(Len(OpenIf.stack),
                     Larger(Len(IfBranchStack), Len(ElseBranchStack)))
    /\ (last.op = "token" /\ last.before.mode \in {"If", "Else"}
            /\ ParseState.mode \in {"If", "Else"} /\ last.parses = 1) =>
          Len(ParseState.stack) >= Len(OpenIf.stack)

HookStep ==
    /\ last.op = "step"
    /\ LastPc # NoneVal
    /\ LastPc \in DOMAIN instructions
    /\ LastEntry.status = "Hook"
    /\ ~last.executed.panic

HooksAt == cfg.hooks[LastPc]

HookNewPc == LastEntry.instruction.offset + LastEntry.instruction.size

\* The state the Hook branch leaves when the tokens are not evaluated: the
\* stepped state with the PC at offset+size (call/return bookkeeping and the
\* hook log as execute left them).
HookSkipped ==
    [last.in EXCEPT !.regs[PCIdx] = Concrete(HookNewPc),
                    !.hooklog = last.executed.hooklog,
                    !.pcs = last.executed.pcs,
                    !.backtrace = last.executed.backtrace,
                    !.xcalls = last.executed.xcalls,
                    !.xrets = last.executed.xrets,
                    !.ran = last.executed.ran]

\* C20: for an instruction of status Hook every hook registered at its
\* address runs, in registration order, also after one returned false; each
\* hook finds the PC at offset+size; the tokens are evaluated if and only if
\* every hook returned true; a skipped instruction leaves the PC at
\* offset+size and the state Active.
C20_HooksRunAll ==
    HookStep =>
        /\ last.executed.hooklog =
              last.in.hooklog \o
                [i \in 1 .. Len(HooksAt) |-> [id |-> HooksAt[i].id, pc |-> HookNewPc]]
        /\ IF \A i \in 1 .. Len(HooksAt) : HooksAt[i].ret
           THEN last.executed = parse(HookSkipped, LastEntry.tokens)
           ELSE /\ last.executed = HookSkipped
                /\ get_pc(last.executed) = Concrete(HookNewPc)
        /\ last.executed.status = "Active"

C20_Witness ==
    /\ HookStep
    /\ Len(HooksAt) = 2
    /\ ~HooksAt[1].ret
    /\ HooksAt[2].ret
    /\ parse(HookSkipped, LastEntry.tokens) # HookSkipped
    /\ last.executed.status = "Active"

\* The latest step executed an instruction of status Sim that a call-type
\* instruction transferred control to: the top of the backtrace is the return
\* address of a call of this address.
SimStep ==
    /\ last.op = "step"
    /\ LastPc # NoneVal
    /\ LastPc \in DOMAIN instructions
    /\ LastEntry.status = "Sim"
    /\ ~last.executed.panic
    /\ last.in.backtrace # <<>>
    /\ \E a \in CodeAddrs :
          /\ Binary(a).type_num = CALL_TYPE
          /\ Binary(a).jump = LastPc
          /\ last.in.backtrace[Len(last.in.backtrace)] = a + Binary(a).size

\* C21: when a call transfers control to an address of status Sim, the
\* tokens at that address are not evaluated, the return register receives the
\* sim's return value, the backtrace is as deep as before the call, and the
\* synthetic return (PC := lr) is performed exactly when the sim left the PC
\* concrete at offset+size.
C21_SimCall ==
    SimStep =>
        LET pre == set_pc(last.in, Concrete(LastPc + LastEntry.instruction.size))
            r == SimRun(pre, cfg.sims[LastPc])
            returns == as_u64(get_pc(r.st)) = LastPc + LastEntry.instruction.size
        IN  /\ last.executed.regs =
                  [r.st.regs EXCEPT ![R0Idx] = r.ret,
                                    ![PCIdx] = IF returns THEN last.in.regs[LRIdx] ELSE @]
            /\ last.executed.mem = last.in.mem
            /\ Len(last.executed.backtrace) = Len(last.in.backtrace) - 1

\* The latest step fanned out into more than one successor.
Fanout == last.op = "step" /\ ~last.executed.panic /\ Len(last.out) > 1

\* C22: in a fanout of k > 1 successors, successor i carries the stepped
\* state's constraints plus only its own assertion pc == candidate_i (added
\* when the computed PC is symbolic), with the stepped state's registers
\* (PC apart) and memory; and a later step of one state of the worklist
\* leaves the other states of the worklist as they were.
C22_FanoutIndependent ==
    /\ [](Fanout =>
            \A i \in 1 .. Len(last.out) :
                /\ last.out[i].asserts =
                      IF last.new_pc.sym
                      THEN solver_assert(last.executed.asserts,
                                         {w \in Worlds : last.new_pc.f[w] = last.pcs[i]})
                      ELSE last.executed.asserts
                /\ last.out[i].regs = [last.executed.regs EXCEPT ![PCIdx] = Concrete(last.pcs[i])]
                /\ last.out[i].mem = last.executed.mem)
    /\ [][(last'.op = "step" /\ ~last'.drained /\ runpc' = "running")
            => SubSeq(states', 1, Len(states) - 1) = Tail(states)]_vars

C22_Witness ==
    /\ last.op = "step"
    /\ ~last.executed.panic
    /\ Len(states) > Len(last.out)
    /\ states[1].asserts # <<>>
    /\ last.in.asserts # <<>>
    /\ last.in.asserts # states[1].asserts

\* C23: whenever run has returned (with an empty result, with a Break state,
\* or in split mode with several states) the pending-merges map is empty.
C23_NoMergesAfterRun ==
    runpc = "returned" => merges = EmptyMap

\* C24: in fuzz mode, for every symbol and every solution obtained for it at
\* an emission point exactly one file holds that solution for that symbol,
\* also when the same bytes were written for another symbol; a symbol's files
\* are named by the symbol and the 4-digit counters 0, 1, 2, ... without
\* gaps, and no file name is written twice.
C24_FilePerSymbolSolution ==
    LET files == result.files
        Of(symbol) == {i \in 1 .. Len(files) : files[i].symbol = symbol}
    IN  /\ \A sb \in result.obtained :
              Cardinality({i \in Of(sb[1]) : files[i].bytes = sb[2]}) = 1
        /\ \A symbol \in DOMAIN SymbolMap :
              {files[i].name : i \in Of(symbol)} =
                  {FileName(symbol, c) : c \in 0 .. (Cardinality(Of(symbol)) - 1)}
        /\ \A i, j \in 1 .. Len(files) : files[i].name = files[j].name => i = j

\* C25: in fuzz mode the worklist never holds more than max_states states.
C25_WorklistBounded ==
    Len(states) <= cfg.max_states

\* C26: stepping a state whose instruction ends up with status Break, Merge
\* or Avoid (after the PostMerge and return-underflow reclassifications)
\* returns exactly one state, of status Break, Merge or Inactive, with the PC
\* still at the instruction, registers and memory unchanged; also for jumps
\* and with force on.
C26_NotExecutedFrame ==
    (last.op = "step" /\ LastPc # NoneVal /\ ~last.executed.panic) =>
        LET new_status ==
                NewStatus(cfg, last.in, LastEntry.instruction, LastEntry.status)
        IN  new_status \in {"Break", "Merge", "Avoid"} =>
                /\ Len(last.out) = 1
                /\ last.out[1].status =
                      CASE new_status = "Break" -> "Break"
                        [] new_status = "Merge" -> "Merge"
                        [] OTHER -> "Inactive"
                /\ last.out[1].regs = last.in.regs
                /\ last.out[1].mem = last.in.mem
                /\ last.out[1].stack = last.in.stack

\* The IF nesting depth of a token list before its word k.
Depth(words, k) ==
    Cardinality({j \in 1 .. (k - 1) : IsOp(words[j], "If")})
        - Cardinality({j \in 1 .. (k - 1) : IsOp(words[j], "EndIf")})

WellBracketed(words) ==
    /\ \A k \in 1 .. (Len(words) + 1) : Depth(words, k) >= 0
    /\ Depth(words, Len(words) + 1) = 0
    /\ \A k \in 1 .. Len(words) : IsOp(words[k], "Else") => Depth(words, k) >= 1
    /\ \A k, l \in 1 .. Len(words) :
          (/\ k < l
           /\ IsOp(words[k], "Else")
           /\ IsOp(words[l], "Else")
           /\ Depth(words, k) = Depth(words, l))
              => \E j \in (k + 1) .. (l - 1) :
                    IsOp(words[j], "EndIf") /\ Depth(words, j) = Depth(words, k)

\* The ENDIF that closes the IF at word i, and its ELSE (0 when it has none).
EndIfOf(words, i) ==
    CHOOSE e \in (i + 1) .. Len(words) :
        /\ Depth(words, e + 1) = Depth(words, i)
        /\ \A j \in (i + 1) .. (e - 1) : Depth(words, j + 1) > Depth(words, i)

ElseOf(words, i) ==
    LET elses == {j \in (i + 1) .. (EndIfOf(words, i) - 1) :
                    IsOp(words[j], "Else") /\ Depth(words, j) = Depth(words, i) + 1}
    IN  IF elses = {} THEN 0 ELSE CHOOSE j \in elses : \A l \in elses : j <= l

\* The latest token lies between a concrete IF of this parse, met in mode
\* Uncon in a well-bracketed token list, and its ENDIF (inclusive).
InConcreteIf ==
    /\ last.op = "token"
    /\ result # <<>>
    /\ OpenIf.parse = last.parses
    /\ ~OpenIf.arg.sym
    /\ WellBracketed(last.words)
    /\ OpenIf.at < last.at
    /\ last.at <= EndIfOf(last.words, OpenIf.at)

\* The words of the branch of that IF that is not taken, and of the one that is.
NotTaken ==
    LET i == OpenIf.at
        e == EndIfOf(last.words, i)
        m == ElseOf(last.words, i)
    IN  IF OpenIf.arg.f[0] # 0
        THEN IF m = 0 THEN {} ELSE (m + 1) .. (e - 1)
        ELSE (i + 1) .. ((IF m = 0 THEN e ELSE m) - 1)

Taken ==
    LET i == OpenIf.at
        e == EndIfOf(last.words, i)
        m == ElseOf(last.words, i)
    IN  IF OpenIf.arg.f[0] # 0
        THEN (i + 1) .. ((IF m = 0 THEN e ELSE m) - 1)
        ELSE IF m = 0 THEN {} ELSE (m + 1) .. (e - 1)

NoEffect ==
    /\ ParseState.stack = last.before.stack
    /\ ParseState.regs = last.before.regs
    /\ ParseState.mem = last.before.mem

\* C27: for an IF with a concrete argument exactly one branch takes effect:
\* the tokens of the branch chosen by the argument are executed, the tokens
\* of the other branch change neither stack, registers nor memory, and after
\* the ENDIF the mode is Uncon.
C27_ConcreteIfOneBranch ==
    InConcreteIf =>
        /\ last.at \in NotTaken => NoEffect
        /\ last.at \in Taken => last.before.mode # "NoExec"
        /\ last.at = EndIfOf(last.words, OpenIf.at) => ParseState.mode = "Uncon"

\* C28: whenever parse, called in mode Uncon, returns without aborting on a
\* well-bracketed token list, the mode is Uncon and condition is None (so the
\* next parse starts in Uncon again), also when it returns
\* through BREAK inside a concrete branch or through a GOTO past the last
\* token.
C28_ParseReturnsUncon ==
    (/\ runpc = "parsed"
     /\ last.op = "token"
     /\ last.start = "Uncon"
     /\ WellBracketed(last.words)) =>
        /\ ParseState.mode = "Uncon"
        /\ ~ParseState.condition.some

\* C29: in the branch of a concrete IF that is not taken, the tokens that
\* follow a nested ENDIF are still skipped: they are not executed and change
\* neither stack, registers nor memory.
C29_NestedNotTaken ==
    (/\ InConcreteIf
     /\ last.at \in NotTaken
     /\ \E j \in (OpenIf.at + 1) .. (last.at - 1) : IsOp(last.words[j], "EndIf"))
        => (last.before.mode = "NoExec" /\ NoEffect)

\* C30: when step fans out over the candidate PCs p1 .. pk it returns exactly
\* k states in that order, the i-th a copy of the stepped state (registers
\* other than the PC, memory) with concrete PC p_i; with no candidate PC it
\* returns no state.
C30_FanoutOrder ==
    (last.op = "step" /\ ~last.executed.panic) =>
        /\ Len(last.out) = Len(last.pcs)
        /\ \A i \in 1 .. Len(last.pcs) :
              /\ as_u64(get_pc(last.out[i])) = last.pcs[i]
              /\ \A index \in RegIdx \ {PCIdx} :
                    last.out[i].regs[index] = last.executed.regs[index]
              /\ last.out[i].mem = last.executed.mem

\* C31: the candidate successor PCs of a step are esil.pcs when force is on
\* and esil.pcs is not empty; otherwise the new PC alone when it is concrete;
\* otherwise esil.pcs when lazy is on and esil.pcs is not empty; otherwise the
\* values the solver returns for the PC.  In the first three cases the
\* candidates are fixed without the solver, whatever the path constraints admit.
C31_CandidatePcs ==
    (last.op = "step" /\ ~last.executed.panic) =>
        LET e == last.executed
            new_pc == last.new_pc
        IN  IF cfg.force /\ e.pcs # <<>> THEN last.pcs = e.pcs
            ELSE IF as_u64(new_pc) # NoneVal THEN last.pcs = <<as_u64(new_pc)>>
            ELSE IF cfg.lazy /\ e.pcs # <<>> THEN last.pcs = e.pcs
            ELSE /\ Range(last.pcs) = SatValues(e.asserts, new_pc)
                 /\ Len(last.pcs) = Cardinality(SatValues(e.asserts, new_pc))

\* A forced step of an executed instruction whose concrete new PC is not the
\* candidate list.
C31_Witness ==
    /\ last.op = "step" /\ ~last.executed.panic /\ last.executed.ran
    /\ cfg.force /\ last.executed.pcs # <<>>
    /\ as_u64(last.new_pc) # NoneVal
    /\ last.pcs # <<as_u64(last.new_pc)>>

\* C32: after every execute, esil.pcs is the list [jump, fail] of the
\* instruction with the zero entries removed, whichever of jump and fail are
\* zero; nothing staged by an earlier instruction remains.
C32_StagedDropZeros ==
    (last.op = "step" /\ LastPc # NoneVal /\ ~last.executed.panic) =>
        LET instr == LastEntry.instruction
        IN  last.executed.pcs =
                SelectSeq(<<instr.jump, instr.fail>>, LAMBDA a : a # 0)

\* C32 as the code has it: after every execute, esil.pcs is [jump, fail] when
\* both are non-zero, [jump] when only fail is zero, and empty when jump is
\* zero, whatever fail is; nothing staged by an earlier instruction remains.
C32_StagedJumpFirst ==
    (last.op = "step" /\ LastPc # NoneVal /\ ~last.executed.panic) =>
        LET instr == LastEntry.instruction
        IN  last.executed.pcs =
                CASE instr.jump # 0 /\ instr.fail # 0 -> <<instr.jump, instr.fail>>
                  [] instr.jump # 0 /\ instr.fail = 0 -> <<instr.jump>>
                  [] OTHER -> <<>>

\* An instruction with a fail address and no jump address was executed in a
\* state that still held the targets staged by an earlier instruction.
C32_Witness ==
    /\ last.op = "step" /\ LastPc # NoneVal /\ ~last.executed.panic
    /\ LastEntry.instruction.jump = 0
    /\ LastEntry.instruction.fail # 0
    /\ last.in.pcs # <<>>
    /\ last.executed.pcs = <<>>

\* The flag operations, and what a token list does to a register: the
\* positions of its flag writes (WeakEqual) to R, whether it reads r (a
\* register word followed by a word other than a store), whether it writes r.
FlagOps == {"Zero", "Carry", "Borrow", "Parity", "Overflow", "S"}

WeakWrites(tokens, R) ==
    {i \in 2 .. Len(tokens) : IsOp(tokens[i], "WeakEqual") /\ tokens[i - 1] = Register(R)}

Reads(tokens, r) ==
    \E j \in 1 .. (Len(tokens) - 1) :
        /\ tokens[j] = Register(r)
        /\ ~IsOp(tokens[j + 1], "Equal") /\ ~IsOp(tokens[j + 1], "WeakEqual")

Writes(tokens, r) ==
    \E j \in 1 .. (Len(tokens) - 1) :
        /\ tokens[j] = Register(r)
        /\ (IsOp(tokens[j + 1], "Equal") \/ IsOp(tokens[j + 1], "WeakEqual"))

\* The call of optimize removed a flag write to R from the previous instruction.
RemovedWrite(call, R) ==
    Cardinality(WeakWrites(call.after.tokens, R))
        < Cardinality(WeakWrites(call.before.tokens, R))

\* The token list of the current instruction of a call of optimize.
CurrTokens(call) == tokenize(Binary(call.curr).esil)

\* C33: optimize removes a flag write to R from the previous instruction only
\* when the current instruction reads neither R, nor a sub-register of R, nor
\* a register that contains R, and writes R, and the value of the removed
\* write comes from a flag operation.
C33_FlagWriteKept ==
    last.op = "optstep" =>
        \A k \in 1 .. Len(last.calls), R \in RegIdx :
            RemovedWrite(last.calls[k], R) =>
                LET curr == CurrTokens(last.calls[k])
                    prev == last.calls[k].before.tokens
                IN  /\ ~\E r \in RegIdx :
                            (is_sub(r, R) \/ is_sub(R, r)) /\ Reads(curr, r)
                    /\ Writes(curr, R)
                    /\ \A i \in WeakWrites(prev, R) :
                            /\ i >= 3
                            /\ prev[i - 2].t = "Operator"
                            /\ prev[i - 2].op \in FlagOps

\* C34: every call optimize(prev, curr) made by a fetch has prev the
\* instruction that immediately precedes curr (prev.offset + prev.size is
\* curr's address), so no instruction of status Hook, Break, Merge, Avoid or
\* Sim lies between them, and curr has status None.
C34_OptimizeAdjacent ==
    last.op = "optstep" =>
        \A k \in 1 .. Len(last.calls) :
            LET prev == last.calls[k].before.instruction
                curr == last.calls[k].curr
            IN  /\ prev.offset + prev.size = curr
                /\ instructions[curr].status = "None"
                /\ \A a \in (prev.offset + 1) .. (curr - 1) :
                        a \in DOMAIN instructions => instructions[a].status = "None"

\* The instruction both processors executed in the latest step, and whether
\* its cached tokens read a flag register or still write one.
OptPc == as_u64(get_pc(last.in[2]))

ObservesFlag(tokens) ==
    \/ \E R \in RegIdx : WeakWrites(tokens, R) # {}
    \/ Reads(tokens, ZFIdx) \/ Reads(tokens, FLIdx)

\* C35: after every instruction that reads a flag or whose flag write the
\* optimizer kept, the registers and the memory of the optimizing processor's
\* state are those of the state of the processor that does not optimize.
C35_OptimizerPreserves ==
    (/\ last.op = "optstep"
     /\ get_pc(last.in[1]) = get_pc(last.in[2])
     /\ OptPc # ProgEnd
     /\ ObservesFlag(instructions[OptPc].tokens)) =>
        /\ states[1].regs = states[2].regs
        /\ states[1].mem = states[2].mem

\* The fused forms of an operator token o: o=[n] and o=.
FusedMem(o, n) == o \o <<"=", "[">> \o n \o <<"]">>
FusedReg(o) == o \o <<"=">>

\* C36: for every operator OP of OPS and N in {1, 2, 4, 8} the token OP=[N]
\* adds exactly the five words AddressStore, peek[N], OP, poke[N],
\* AddressRestore, in this order.
C36_FusedMemPokeFirst ==
    last.op = "tok" =>
        \A o \in OPS, n \in TokWidths :
            last.s = FusedMem(o, n) =>
                result = last.before \o
                    << Operator("AddressStore"),
                       get_operator(<<"[">> \o n \o <<"]">>),
                       get_operator(o),
                       get_operator(<<"=", "[">> \o n \o <<"]">>),
                       Operator("AddressRestore") >>

\* C36 as the code has it: the five words are AddressStore, peek[N], OP,
\* AddressRestore, poke[N], in this order.
C36_FusedMemRestoreFirst ==
    last.op = "tok" =>
        \A o \in OPS, n \in TokWidths :
            last.s = FusedMem(o, n) =>
                /\ get_operator(<<"[">> \o n \o <<"]">>) # NoWord
                /\ get_operator(<<"=", "[">> \o n \o <<"]">>) # NoWord
                /\ result = last.before \o
                    << Operator("AddressStore"),
                       get_operator(<<"[">> \o n \o <<"]">>),
                       get_operator(o),
                       Operator("AddressRestore"),
                       get_operator(<<"=", "[">> \o n \o <<"]">>) >>

\* A fused memory form was expanded after two other words.
C36_Witness ==
    /\ last.op = "tok"
    /\ last.s = FusedMem(<<"^">>, <<"8">>)
    /\ Len(last.before) = 2
    /\ Len(result) = 7

\* C37: for every operator OP of OPS the token OP= that follows a register
\* word REG removes that word and adds REG, OP, REG, Equal; the words before
\* REG stay as they were.
C37_FusedReg ==
    last.op = "tok" =>
        \A o \in OPS :
            (/\ last.s = FusedReg(o)
             /\ last.before # <<>>
             /\ last.before[Len(last.before)].t = "Register") =>
                LET reg_word == last.before[Len(last.before)]
                IN  result = SubSeq(last.before, 1, Len(last.before) - 1) \o
                        << reg_word, get_operator(o), reg_word, Operator("Equal") >>

\* A fused register form was expanded after a word and a register.
C37_Witness ==
    /\ last.op = "tok"
    /\ last.s = FusedReg(<<"-">>)
    /\ Len(last.before) = 2
    /\ last.before[2] = Register(R0Idx)
    /\ Len(result) = 5
    /\ result[1] = last.before[1]

\* A token that is no register, no literal, no operator and no fused form.
Unrecognized(s) ==
    /\ get_register(s) = NoWord /\ get_literal(s) = NoWord /\ get_operator(s) = NoWord
    /\ ~\E o \in OPS : s = FusedReg(o) \/ \E n \in TokWidths : s = FusedMem(o, n)

C40_MergeKeepsParked ==
    MergeCase =>
        /\ Merged = [Parked EXCEPT !.regs = Merged.regs, !.mem = Merged.mem,
                                   !.asserts = Merged.asserts]
        /\ Merged.backtrace = Parked.backtrace
        /\ DOMAIN merges = DOMAIN last.before
        /\ \A a \in (DOMAIN merges) \ {MergePc} : merges[a] = last.before[a]
        /\ (Arriving.backtrace # Parked.backtrace) => (Arriving \notin AllStates)

\* Two states with different backtraces were merged.
C40_Witness ==
    /\ MergeCase
    /\ Arriving.backtrace # Parked.backtrace
    /\ Merged.backtrace = Parked.backtrace
    /\ Merged.regs # Parked.regs

====
